---- MODULE Spec2Model ----
(***************************************************************************)
(* A model of the transcript pipeline of lennysroundtable:                 *)
(*   - roundtable/parser.py     parse_transcript, chunk_turn               *)
(*   - roundtable/retriever.py  Retriever.rank_speakers                    *)
(* Text is a TLA+ string; Python offsets are kept 0-based, so that the     *)
(* slice text[a:b] is SubSeq(text, a + 1, b).                              *)
(***************************************************************************)
EXTENDS Integers, Sequences, FiniteSets, TLC

\* ------------------------------------------------------------------------
\* Python str primitives
\* ------------------------------------------------------------------------

NoneVal == "<None>"

UpperStr == "ABCDEFGHIJKLMNOPQRSTUVWXYZ"
LowerStr == "abcdefghijklmnopqrstuvwxyz"
DigitStr == "0123456789"

CharAt(s, i) == SubSeq(s, i, i)

CharsOf(s) == {CharAt(s, i) : i \in 1..Len(s)}

UpperSet == CharsOf(UpperStr)
LowerSet == CharsOf(LowerStr)
DigitSet == CharsOf(DigitStr)
SpaceSet == {" ", "\t", "\n", "\r", "\f"}

IndexIn(c, s) == CHOOSE i \in 1..Len(s) : CharAt(s, i) = c

LowerChar(c) == IF c \in UpperSet THEN CharAt(LowerStr, IndexIn(c, UpperStr)) ELSE c
UpperChar(c) == IF c \in LowerSet THEN CharAt(UpperStr, IndexIn(c, LowerStr)) ELSE c

Slice(s, a, b) == SubSeq(s, a + 1, b)

Min(a, b) == IF a < b THEN a ELSE b
Max(a, b) == IF a > b THEN a ELSE b

RECURSIVE Lower(_)
Lower(s) ==
    IF Len(s) = 0 THEN ""
    ELSE IF Len(s) = 1 THEN LowerChar(s)
    ELSE LET h == Len(s) \div 2
         IN  Lower(SubSeq(s, 1, h)) \o Lower(SubSeq(s, h + 1, Len(s)))

\* number of leading characters of s that lie in the set cs
RECURSIVE LeadIn(_, _, _)
LeadIn(s, cs, n) ==
    IF n < Len(s) /\ CharAt(s, n + 1) \in cs THEN LeadIn(s, cs, n + 1) ELSE n

\* number of trailing characters of s that lie in the set cs
RECURSIVE TrailIn(_, _, _)
TrailIn(s, cs, n) ==
    IF n < Len(s) /\ CharAt(s, Len(s) - n) \in cs THEN TrailIn(s, cs, n + 1) ELSE n

RStrip(s, cs) == SubSeq(s, 1, Len(s) - TrailIn(s, cs, 0))

Strip(s) ==
    LET a == LeadIn(s, SpaceSet, 0)
    IN  IF a = Len(s) THEN "" ELSE SubSeq(s, a + 1, Len(s) - TrailIn(s, SpaceSet, 0))

EndsWith(s, t) == Len(s) >= Len(t) /\ SubSeq(s, Len(s) - Len(t) + 1, Len(s)) = t

\* str.isupper(): at least one cased character and no lower-case one
IsUpperStr(s) ==
    /\ \E i \in 1..Len(s) : CharAt(s, i) \in UpperSet
    /\ \A i \in 1..Len(s) : CharAt(s, i) \notin LowerSet

\* str.title(): a cased character is upper-cased after an uncased one (or at
\* the start) and lower-cased after a cased one
RECURSIVE TitleFrom(_, _, _)
TitleFrom(s, i, prevCased) ==
    IF i > Len(s) THEN ""
    ELSE LET c == CharAt(s, i)
             cased == c \in UpperSet \/ c \in LowerSet
         IN  (IF prevCased THEN LowerChar(c) ELSE UpperChar(c))
                 \o TitleFrom(s, i + 1, cased)

Title(s) == TitleFrom(s, 1, FALSE)

\* str.split(sep) on a single separator character: empty fields are kept
RECURSIVE SplitOn(_, _, _, _)
SplitOn(s, sep, i, from) ==
    IF i > Len(s) THEN <<SubSeq(s, from, Len(s))>>
    ELSE IF CharAt(s, i) = sep
         THEN <<SubSeq(s, from, i - 1)>> \o SplitOn(s, sep, i + 1, i + 1)
         ELSE SplitOn(s, sep, i + 1, from)

\* str.split(): fields separated by runs of whitespace, no empty field
SplitWords(s) ==
    LET RECURSIVE Go(_, _)
        Go(i, from) ==
            IF i > Len(s)
            THEN IF from < i THEN <<SubSeq(s, from, Len(s))>> ELSE <<>>
            ELSE IF CharAt(s, i) \in SpaceSet
                 THEN (IF from < i THEN <<SubSeq(s, from, i - 1)>> ELSE <<>>)
                          \o Go(i + 1, i + 1)
                 ELSE Go(i + 1, from)
    IN  Go(1, 1)

\* "kw in s" for strings: kw occurs in s as a substring
Contains(s, kw) ==
    \E i \in 1..(Len(s) - Len(kw) + 1) :
        /\ CharAt(s, i) = CharAt(kw, 1)
        /\ SubSeq(s, i, i + Len(kw) - 1) = kw

Range(f) == {f[i] : i \in DOMAIN f}

\* ------------------------------------------------------------------------
\* parser.py: tables
\* ------------------------------------------------------------------------

SENTENCE_INDICATORS == {
    "the", "and", "that", "this", "what", "which", "about", "with",
    "for", "from", "into", "just", "yeah", "yes", "well", "okay",
    "really", "very", "good", "great", "nice", "last", "next",
    "piece", "part", "idea", "point", "thing", "question", "answer",
    "so", "but", "or", "if", "when", "how", "why", "where", "who",
    "it", "is", "are", "was", "were", "be", "been", "being",
    "have", "has", "had", "do", "does", "did", "will", "would",
    "could", "should", "may", "might", "must", "shall", "can",
    "not", "no", "all", "any", "some", "every", "each", "both",
    "more", "most", "other", "another", "such", "only", "own",
    "same", "than", "too", "also", "now", "then", "here", "there" }

SINGLE_WORD_NON_NAMES == {
    "yeah", "yes", "no", "okay", "ok", "sure", "right", "exactly",
    "absolutely", "totally", "definitely", "certainly", "probably",
    "maybe", "perhaps", "honestly", "actually", "basically", "literally",
    "interesting", "amazing", "awesome", "great", "good", "nice", "cool",
    "wow", "oh", "ah", "um", "uh", "hmm", "well", "so", "like", "true",
    "advertisement", "eventually", "finally", "unfortunately", "fortunately",
    "obviously", "clearly", "apparently", "essentially", "ultimately",
    "minds", "all" }

SPONSOR_SPEAKERS == {"advertisement", "ad", "sponsor"}

SPONSOR_KEYWORDS == <<
    "brought to you by",
    "this episode is brought",
    "sponsor",
    "promo code",
    "discount code",
    "coupon code",
    "sign up and get",
    "head over to",
    "check out",
    "special offer" >>

HOST_NAMES == {"lenny", "lenny rachitsky"}

TITLE_SUFFIXES == {"Jr.", "Sr.", "Dr.", "Mr.", "Ms.", "Mrs."}

\* ------------------------------------------------------------------------
\* parser.py: name handling
\* ------------------------------------------------------------------------

\* the name is trimmed but keeps its capitals
normalize_trim_only(name) == Strip(name)

normalize_speaker_name(name) ==
    LET n == Strip(name)
    IN  IF IsUpperStr(n) THEN Title(n) ELSE n

EndsWithTitle(s) == \E t \in TITLE_SUFFIXES : EndsWith(s, t)

is_valid_speaker_name(name) ==
    LET name_clean == Strip(name)
        name_lower == Lower(name_clean)
        words == SplitWords(name_lower)
    IN  IF name_clean = "" THEN FALSE
        ELSE IF Len(words) > 5 THEN FALSE
        ELSE IF Len(name_clean) < 3 THEN FALSE
        ELSE IF /\ Len(words) = 1
                /\ \/ \E part \in Range(SplitOn(RStrip(words[1], {"."}), "-", 1, 1)) :
                          part \in SINGLE_WORD_NON_NAMES
                   \/ (EndsWith(name_clean, ".") /\ ~EndsWithTitle(name_clean))
             THEN FALSE
        ELSE IF \E i \in 1..Len(words) :
                    RStrip(words[i], {".", ",", "!", "?"}) \in SENTENCE_INDICATORS
             THEN FALSE
        ELSE IF Len(words) > 1 /\ EndsWith(name_clean, ".") /\ ~EndsWithTitle(name_clean)
             THEN FALSE
        ELSE TRUE

\* the comparison without lower(): "Lenny" is not in HOST_NAMES
is_host_exact(speaker) == Strip(speaker) \in HOST_NAMES

is_host(speaker) == Strip(Lower(speaker)) \in HOST_NAMES

is_sponsor_content(t) ==
    LET text_lower == Lower(t)
    IN  \E k \in 1..Len(SPONSOR_KEYWORDS) : Contains(text_lower, SPONSOR_KEYWORDS[k])

\* ------------------------------------------------------------------------
\* parser.py: the three marker patterns (re.MULTILINE) and finditer
\* ------------------------------------------------------------------------

NameChars == UpperSet \cup LowerSet \cup {" ", ".", "&", "-", "'"}

\* the character at Python offset o, "" past the end
ChAt(t, o) == IF o >= 0 /\ o < Len(t) THEN CharAt(t, o + 1) ELSE ""

NoMatch == [start |-> -1, end |-> -1, name |-> NoneVal, ts |-> ""]

\* '^' : start of the text or just after a newline
AtLineStart(t, p) == p = 0 \/ ChAt(t, p - 1) = "\n"

\* \d{1,2}:\d{2}(?::\d{2})?  at offset q: the offset after it, or -1
MatchTimestamp(t, q) ==
    LET d == LeadIn(t, DigitSet, q) - q
        a == q + d + 1
        b == a + 2
    IN  IF ~(d \in {1, 2} /\ ChAt(t, q + d) = ":") THEN -1
        ELSE IF ~(ChAt(t, a) \in DigitSet /\ ChAt(t, a + 1) \in DigitSet) THEN -1
        ELSE IF /\ ChAt(t, b) = ":"
                /\ ChAt(t, b + 1) \in DigitSet
                /\ ChAt(t, b + 2) \in DigitSet
             THEN b + 3
             ELSE b

\* \s*$  at offset q: greedy whitespace, then end of text or just before a
\* newline; the offset where the match ends, or -1
MatchLineEnd(t, q) ==
    LET r == LeadIn(t, SpaceSet, q)
        nl == {e \in q..(r - 1) : ChAt(t, e) = "\n"}
    IN  IF r = Len(t) THEN r
        ELSE IF nl = {} THEN -1
        ELSE CHOOSE e \in nl : \A f \in nl : f <= e

\* \((ts)\):\s*$  at offset q
MatchParenTs(t, q) ==
    LET te == MatchTimestamp(t, q + 1)
    IN  IF ChAt(t, q) = "(" /\ te # -1 /\ ChAt(t, te) = ")" /\ ChAt(t, te + 1) = ":"
        THEN [end |-> MatchLineEnd(t, te + 2), ts |-> Slice(t, q + 1, te)]
        ELSE [end |-> -1, ts |-> ""]

\* the end offset of group 1, [A-Z][A-Za-z \.&\-']{1,49}, at offset p, or -1
MatchName(t, p) ==
    LET r == LeadIn(t, NameChars, p + 1)
    IN  IF ChAt(t, p) \in UpperSet /\ r >= p + 2 THEN Min(r, p + 50) ELSE -1

\* SPEAKER_WITH_TIMESTAMP_PATTERN at offset p
MatchSpeakerTs(t, p) ==
    LET ne == MatchName(t, p)
        q == LeadIn(t, SpaceSet, ne)
        m == MatchParenTs(t, q)
    IN  IF AtLineStart(t, p) /\ ne # -1 /\ m.end # -1
        THEN [start |-> p, end |-> m.end, name |-> Slice(t, p, ne), ts |-> m.ts]
        ELSE NoMatch

\* SPEAKER_NO_TIMESTAMP_PATTERN at offset p
MatchSpeakerNoTs(t, p) ==
    LET ne == MatchName(t, p)
        e == MatchLineEnd(t, ne + 1)
    IN  IF AtLineStart(t, p) /\ ne # -1 /\ ChAt(t, ne) = ":" /\ e # -1
        THEN [start |-> p, end |-> e, name |-> Slice(t, p, ne), ts |-> ""]
        ELSE NoMatch

\* TIMESTAMP_ONLY_PATTERN at offset p
MatchTsOnly(t, p) ==
    LET m == MatchParenTs(t, p)
    IN  IF AtLineStart(t, p) /\ m.end # -1
        THEN [start |-> p, end |-> m.end, name |-> NoneVal, ts |-> m.ts]
        ELSE NoMatch

LineStarts(t) == {0} \cup {i \in 1..Len(t) : CharAt(t, i) = "\n"}

\* pattern.finditer(text): the non-overlapping matches, left to right
FindAll(t, M(_, _)) ==
    LET hits == {p \in LineStarts(t) : M(t, p).end # -1}
        RECURSIVE Go(_)
        Go(pos) ==
            LET c == {p \in hits : p >= pos}
            IN  IF c = {} THEN <<>>
                ELSE LET p == CHOOSE a \in c : \A b \in c : a <= b
                     IN  <<M(t, p)>> \o Go(M(t, p).end)
    IN  Go(0)

\* ------------------------------------------------------------------------
\* parser.py: parse_transcript
\* ------------------------------------------------------------------------

SourceFile == "episode.txt"

\* lines 174-180: the timestamped dialect first, the other one as fallback
SpeakerMatches(t) ==
    LET sm == FindAll(t, MatchSpeakerTs)
    IN  IF sm = <<>> THEN FindAll(t, MatchSpeakerNoTs) ELSE sm

\* the timestamp-only lines kept in the fallback dialect too
TimestampMatchesAlways(t) == FindAll(t, MatchTsOnly)

\* lines 175-180
TimestampMatches(t) ==
    IF FindAll(t, MatchSpeakerTs) = <<>> THEN <<>> ELSE FindAll(t, MatchTsOnly)

\* every matched line taken as a speaker marker, without the name test
SpeakerMarkerAnyName(m) ==
    [start |-> m.start, end |-> m.end, speaker |-> normalize_speaker_name(m.name),
     timestamp |-> m.ts, type |-> "speaker"]

\* lines 190-211
SpeakerMarker(m) ==
    IF is_valid_speaker_name(m.name)
    THEN [start |-> m.start, end |-> m.end,
          speaker |-> normalize_speaker_name(m.name),
          timestamp |-> m.ts, type |-> "speaker"]
    ELSE [start |-> m.start, end |-> m.end, speaker |-> NoneVal,
          timestamp |-> m.ts, type |-> "continuation"]

\* lines 212-219
ContinuationMarker(m) ==
    [start |-> m.start, end |-> m.end, speaker |-> NoneVal,
     timestamp |-> m.ts, type |-> "continuation"]

\* list.sort(key=start): stable insertion into a sorted prefix
RECURSIVE SortByStart(_)
SortByStart(ms) ==
    IF ms = <<>> THEN <<>>
    ELSE LET rest == SortByStart(SubSeq(ms, 1, Len(ms) - 1))
             m == ms[Len(ms)]
             k == Cardinality({i \in 1..Len(rest) : rest[i].start <= m.start})
         IN  SubSeq(rest, 1, k) \o <<m>> \o SubSeq(rest, k + 1, Len(rest))

\* lines 189-221
BuildMarkers(t) ==
    LET sm == SpeakerMatches(t)
        tm == TimestampMatches(t)
    IN  SortByStart([i \in 1..Len(sm) |-> SpeakerMarker(sm[i])]
                        \o [i \in 1..Len(tm) |-> ContinuationMarker(tm[i])])

\* the default of line 232 with a name that is not the host's
ContinuationSpeakerGuest(cur) == IF cur # NoneVal /\ cur # "" THEN cur ELSE "Unknown"

\* line 232
ContinuationSpeaker(cur) == IF cur # NoneVal /\ cur # "" THEN cur ELSE "Lenny"

\* lines 227-244: one iteration; acc = [cur, turns]
FillStep(t, ms, i, acc) ==
    LET marker == ms[i]
        cur == IF marker.type = "speaker" THEN marker.speaker ELSE acc.cur
        spk == IF marker.type = "speaker" THEN marker.speaker
               ELSE ContinuationSpeaker(acc.cur)
        start == marker.end
        end == IF i + 1 <= Len(ms) THEN ms[i + 1].start ELSE Len(t)
        turn_text == Strip(Slice(t, start, end))
    IN  [cur |-> cur,
         turns |-> Append(acc.turns,
                          [speaker |-> spk, timestamp |-> marker.timestamp,
                           text |-> turn_text, is_host |-> is_host(spk)])]

RECURSIVE FillLoop(_, _, _, _)
FillLoop(t, ms, i, acc) ==
    IF i > Len(ms) THEN acc ELSE FillLoop(t, ms, i + 1, FillStep(t, ms, i, acc))

\* lines 224-244
FillTurns(t, ms) == FillLoop(t, ms, 1, [cur |-> NoneVal, turns |-> <<>>])

\* the merge step that gives the merged turn the timestamp of its last piece
MergeStepLastStamp(merged, turn) ==
    IF merged # <<>> /\ merged[Len(merged)].speaker = turn.speaker
    THEN [merged EXCEPT ![Len(merged)].text = @ \o "\n\n" \o turn.text,
                        ![Len(merged)].timestamp = turn.timestamp]
    ELSE Append(merged, turn)

\* lines 248-253: one iteration
MergeStep(merged, turn) ==
    IF merged # <<>> /\ merged[Len(merged)].speaker = turn.speaker
    THEN [merged EXCEPT ![Len(merged)].text = @ \o "\n\n" \o turn.text]
    ELSE Append(merged, turn)

RECURSIVE MergeLoop(_, _, _)
MergeLoop(raw, i, merged) ==
    IF i > Len(raw) THEN merged ELSE MergeLoop(raw, i + 1, MergeStep(merged, raw[i]))

\* lines 247-253
MergeTurns(raw) == MergeLoop(raw, 1, <<>>)

\* the extraction step without the sponsor test on host turns
ExtractStepAnyHost(acc, turn) ==
    IF turn.is_host
    THEN [acc EXCEPT !.q = turn.text]
    ELSE IF turn.speaker # NoneVal /\ turn.speaker # ""
               /\ Lower(turn.speaker) \in SPONSOR_SPEAKERS
         THEN acc
    ELSE IF is_sponsor_content(turn.text) THEN acc
    ELSE IF Len(turn.text) >= 100
         THEN [acc EXCEPT !.out = Append(@,
                  [speaker |-> turn.speaker, timestamp |-> turn.timestamp,
                   text |-> turn.text, preceding_question |-> acc.q,
                   source_file |-> SourceFile])]
         ELSE acc

\* the extraction step without the sponsor test on guest turns
ExtractStepKeepAds(acc, turn) ==
    IF turn.is_host
    THEN IF ~is_sponsor_content(turn.text)
         THEN [acc EXCEPT !.q = turn.text]
         ELSE acc
    ELSE IF turn.speaker # NoneVal /\ turn.speaker # ""
               /\ Lower(turn.speaker) \in SPONSOR_SPEAKERS
         THEN acc
    ELSE IF Len(turn.text) >= 100
         THEN [acc EXCEPT !.out = Append(@,
                  [speaker |-> turn.speaker, timestamp |-> turn.timestamp,
                   text |-> turn.text, preceding_question |-> acc.q,
                   source_file |-> SourceFile])]
         ELSE acc

\* the extraction step without the 100-character floor
ExtractStepNoFloor(acc, turn) ==
    IF turn.is_host
    THEN IF ~is_sponsor_content(turn.text)
         THEN [acc EXCEPT !.q = turn.text]
         ELSE acc
    ELSE IF turn.speaker # NoneVal /\ turn.speaker # ""
               /\ Lower(turn.speaker) \in SPONSOR_SPEAKERS
         THEN acc
    ELSE IF is_sponsor_content(turn.text) THEN acc
    ELSE [acc EXCEPT !.out = Append(@,
             [speaker |-> turn.speaker, timestamp |-> turn.timestamp,
              text |-> turn.text, preceding_question |-> acc.q,
              source_file |-> SourceFile])]

\* lines 259-284: one iteration; acc = [q, out]
ExtractStep(acc, turn) ==
    IF turn.is_host
    THEN IF ~is_sponsor_content(turn.text)
         THEN [acc EXCEPT !.q = turn.text]
         ELSE acc
    ELSE IF turn.speaker # NoneVal /\ turn.speaker # ""
               /\ Lower(turn.speaker) \in SPONSOR_SPEAKERS
         THEN acc
    ELSE IF is_sponsor_content(turn.text) THEN acc
    ELSE IF Len(turn.text) >= 100
         THEN [acc EXCEPT !.out = Append(@,
                  [speaker |-> turn.speaker, timestamp |-> turn.timestamp,
                   text |-> turn.text, preceding_question |-> acc.q,
                   source_file |-> SourceFile])]
         ELSE acc

RECURSIVE ExtractLoop(_, _, _)
ExtractLoop(merged, i, acc) ==
    IF i > Len(merged) THEN acc
    ELSE ExtractLoop(merged, i + 1, ExtractStep(acc, merged[i]))

\* lines 256-286
ExtractGuestTurns(merged) == ExtractLoop(merged, 1, [q |-> "", out |-> <<>>])

\* ------------------------------------------------------------------------
\* parser.py: chunk_turn
\* ------------------------------------------------------------------------

\* the 100-character floor of the final buffer (line 337)
MinLastChunk == 100

\* str.split('\n\n'): non-overlapping separators, left to right
SplitParagraphs(s) ==
    LET RECURSIVE Go(_)
        Go(from) ==
            LET c == {i \in from..(Len(s) - 1) : SubSeq(s, i, i + 1) = "\n\n"}
            IN  IF c = {} THEN <<SubSeq(s, from, Len(s))>>
                ELSE LET i == CHOOSE a \in c : \A b \in c : a <= b
                     IN  <<SubSeq(s, from, i - 1)>> \o Go(i + 2)
    IN  Go(1)

\* s[-n:] for n >= 0; s[-0:] is the whole of s
LastChars(s, n) == IF n = 0 THEN s ELSE SubSeq(s, Max(Len(s) - n, 0) + 1, Len(s))

\* line 331
OverlapText(cur, ov) == IF Len(cur) > ov THEN LastChars(cur, ov) ELSE cur

MakeChunk(t, body, idx) ==
    [text |-> body, speaker |-> t.speaker, timestamp |-> t.timestamp,
     preceding_question |-> t.preceding_question, source_file |-> t.source_file,
     chunk_index |-> idx]

\* lines 313-334: one iteration; st = [cur, idx, out]
ChunkStep(t, maxc, ov, st, para) ==
    IF Len(st.cur) + Len(para) + 2 <= maxc
    THEN [st EXCEPT !.cur = IF st.cur # "" THEN st.cur \o "\n\n" \o para ELSE para]
    ELSE IF st.cur # ""
         THEN [cur |-> OverlapText(st.cur, ov) \o "\n\n" \o para,
               idx |-> st.idx + 1,
               out |-> Append(st.out, MakeChunk(t, st.cur, st.idx))]
         ELSE [st EXCEPT !.cur = para]

\* the last step without the 100-character floor
ChunkLastAlways(t, st) ==
    IF st.cur # "" THEN Append(st.out, MakeChunk(t, st.cur, st.idx)) ELSE st.out

\* lines 336-347
ChunkLast(t, st) ==
    IF st.cur # "" /\ Len(st.cur) >= MinLastChunk
    THEN Append(st.out, MakeChunk(t, st.cur, st.idx))
    ELSE st.out

\* ------------------------------------------------------------------------
\* retriever.py: Retriever.rank_speakers
\* Distances and similarities are counted in tenths: similarity 1 - distance
\* is SimUnit - d.  A score total / sqrt(n) is kept as the pair [total, n] and
\* scores are compared exactly.
\* ------------------------------------------------------------------------

SimUnit == 10

\* the parent collection: id -> document and metadata
ParentStore ==
    [p \in {"p1", "p2", "p3", "p4", "p5"} |->
        [text |-> "text of " \o p,
         metadata |-> [speaker |-> CASE p = "p1" -> "Ada Wong"
                                     [] p = "p2" -> "Ada Wong"
                                     [] p = "p3" -> "Kunal Shah"
                                     [] p = "p4" -> "Kunal Shah"
                                     [] p = "p5" -> "Shreyas Doshi",
                       parent_id |-> p]]]

\* a / sqrt(a.n) < b / sqrt(b.n)
ScoreLess(a, b) ==
    IF a.total < 0 /\ b.total >= 0 THEN TRUE
    ELSE IF a.total >= 0 /\ b.total < 0 THEN FALSE
    ELSE IF a.total >= 0
         THEN a.total * a.total * b.n < b.total * b.total * a.n
         ELSE a.total * a.total * b.n > b.total * b.total * a.n

\* lines 109-123: one hit; acc is parent_scores in insertion order
CollectStep(acc, hit) ==
    IF hit.parent_id = NoneVal \/ hit.parent_id = "" THEN acc
    ELSE LET similarity == SimUnit - hit.distance
             known == {k \in 1..Len(acc) : acc[k].id = hit.parent_id}
         IN  IF known = {}
             THEN Append(acc, [id |-> hit.parent_id, scores |-> <<similarity>>])
             ELSE LET k == CHOOSE j \in known : TRUE
                  IN  [acc EXCEPT ![k].scores = Append(@, similarity)]

RECURSIVE CollectLoop(_, _, _)
CollectLoop(hits, i, acc) ==
    IF i > Len(hits) THEN acc ELSE CollectLoop(hits, i + 1, CollectStep(acc, hits[i]))

\* lines 105-123: parent_scores; parent_ids is the list of its keys
CollectParents(hits) == CollectLoop(hits, 1, <<>>)

\* the ids of ids that the parent collection holds
FoundIds(ids) == {p \in Range(ids) : p \in DOMAIN ParentStore}

\* lines 58-78; order is the order in which the collection returns the ids
get_parent_chunks(parent_ids, order) ==
    IF parent_ids = <<>> THEN <<>>
    ELSE [i \in 1..Len(order) |->
             [id |-> order[i], text |-> ParentStore[order[i]].text,
              metadata |-> ParentStore[order[i]].metadata]]

MaxOf(xs) == CHOOSE m \in Range(xs) : \A y \in Range(xs) : y <= m

RECURSIVE SumOf(_)
SumOf(xs) == IF xs = <<>> THEN 0 ELSE xs[1] + SumOf(Tail(xs))

\* every child hit of the parent counted, not only the best one
best_score_sum(scores) == SumOf(scores)

\* line 139
best_score(scores) == MaxOf(scores)

\* line 136
SpeakerOf(metadata) ==
    IF "speaker" \in DOMAIN metadata THEN metadata.speaker ELSE "Unknown"

\* an entry whose parent the collection did not return is filed under "Unknown"
GroupStepKeepMissing(acc, entry, parent_map) ==
    LET found == {k \in 1..Len(parent_map) : parent_map[k].id = entry.id}
        parent_data == IF found = {}
                       THEN [id |-> entry.id, text |-> "", metadata |-> [parent_id |-> entry.id]]
                       ELSE parent_map[CHOOSE k \in found : TRUE]
        speaker == SpeakerOf(parent_data.metadata)
        chunk_data == [id |-> entry.id, text |-> parent_data.text,
                       metadata |-> parent_data.metadata,
                       similarity |-> best_score(entry.scores),
                       num_child_matches |-> Len(entry.scores)]
        known == {k \in 1..Len(acc) : acc[k].speaker = speaker}
    IN  IF known = {}
        THEN Append(acc, [speaker |-> speaker, chunks |-> <<chunk_data>>])
        ELSE LET k == CHOOSE j \in known : TRUE
             IN  [acc EXCEPT ![k].chunks = Append(@, chunk_data)]

\* an entry whose parent the collection did not return opens an empty list
\* under "Unknown"
GroupStepEmptyEntry(acc, entry, parent_map) ==
    LET found == {k \in 1..Len(parent_map) : parent_map[k].id = entry.id}
    IN  IF found = {}
        THEN IF \E k \in 1..Len(acc) : acc[k].speaker = "Unknown" THEN acc
             ELSE Append(acc, [speaker |-> "Unknown", chunks |-> <<>>])
        ELSE LET parent_data == parent_map[CHOOSE k \in found : TRUE]
                 speaker == SpeakerOf(parent_data.metadata)
                 chunk_data == [id |-> entry.id, text |-> parent_data.text,
                                metadata |-> parent_data.metadata,
                                similarity |-> best_score(entry.scores),
                                num_child_matches |-> Len(entry.scores)]
                 known == {k \in 1..Len(acc) : acc[k].speaker = speaker}
             IN  IF known = {}
                 THEN Append(acc, [speaker |-> speaker, chunks |-> <<chunk_data>>])
                 ELSE LET k == CHOOSE j \in known : TRUE
                      IN  [acc EXCEPT ![k].chunks = Append(@, chunk_data)]

\* lines 131-151: one entry of parent_scores; acc is speaker_parents
GroupStep(acc, entry, parent_map) ==
    LET found == {k \in 1..Len(parent_map) : parent_map[k].id = entry.id}
    IN  IF found = {} THEN acc
        ELSE LET parent_data == parent_map[CHOOSE k \in found : TRUE]
                 speaker == SpeakerOf(parent_data.metadata)
                 chunk_data == [id |-> entry.id, text |-> parent_data.text,
                                metadata |-> parent_data.metadata,
                                similarity |-> best_score(entry.scores),
                                num_child_matches |-> Len(entry.scores)]
                 known == {k \in 1..Len(acc) : acc[k].speaker = speaker}
             IN  IF known = {}
                 THEN Append(acc, [speaker |-> speaker, chunks |-> <<chunk_data>>])
                 ELSE LET k == CHOOSE j \in known : TRUE
                      IN  [acc EXCEPT ![k].chunks = Append(@, chunk_data)]

RECURSIVE GroupLoop(_, _, _, _)
GroupLoop(ps, i, parent_map, acc) ==
    IF i > Len(ps) THEN acc
    ELSE GroupLoop(ps, i + 1, parent_map, GroupStep(acc, ps[i], parent_map))

\* the loop run over parent_map, in the order the collection answered
GroupByParentMap(parent_scores, parent_map) ==
    GroupLoop([i \in 1..Len(parent_map) |->
                  parent_scores[CHOOSE k \in 1..Len(parent_scores) :
                                    parent_scores[k].id = parent_map[i].id]],
              1, parent_map, <<>>)

\* lines 128-151: the loop runs over parent_scores
GroupBySpeaker(parent_scores, parent_map) == GroupLoop(parent_scores, 1, parent_map, <<>>)

\* list.sort(key=..., reverse=True): stable, Before(a, b) iff key(a) > key(b)
StableSortDesc(xs, Before(_, _)) ==
    LET RECURSIVE Go(_)
        Go(n) ==
            IF n = 0 THEN <<>>
            ELSE LET rest == Go(n - 1)
                     x == xs[n]
                     k == Cardinality({i \in 1..Len(rest) : ~Before(x, rest[i])})
                 IN  SubSeq(rest, 1, k) \o <<x>> \o SubSeq(rest, k + 1, Len(rest))
    IN  Go(Len(xs))

SimBefore(a, b) == a.similarity > b.similarity

ScoreBefore(a, b) == ScoreLess(b.score, a.score)

\* the sort without reverse=True
SortChunksAscending(chunks) ==
    LET Lower_(a, b) == a.similarity < b.similarity
    IN  StableSortDesc(chunks, Lower_)

\* lines 164, 185
SortChunks(chunks) == StableSortDesc(chunks, SimBefore)

\* the sort without reverse=True
SortContextsAscending(scs) ==
    LET Worse(a, b) == ScoreLess(a.score, b.score)
    IN  StableSortDesc(scs, Worse)

\* lines 173, 193
SortContexts(scs) == StableSortDesc(scs, ScoreBefore)

RECURSIVE SumSimilarity(_)
SumSimilarity(chunks) ==
    IF chunks = <<>> THEN 0 ELSE chunks[1].similarity + SumSimilarity(Tail(chunks))

\* lines 160-170, 183-191
MakeContext(speaker, chunks) ==
    [speaker |-> speaker,
     score |-> [total |-> SumSimilarity(chunks), n |-> Len(chunks)],
     chunks |-> SortChunks(chunks)]

RECURSIVE ScoreLoop(_, _, _, _)
ScoreLoop(sp, i, minc, acc) ==
    IF i > Len(sp) THEN acc
    ELSE ScoreLoop(sp, i + 1, minc,
                   IF Len(sp[i].chunks) < minc THEN acc
                   ELSE Append(acc, MakeContext(sp[i].speaker, sp[i].chunks)))

\* the primary pass without the min_chunks test
ScoreSpeakersNoMin(speaker_parents, minc) ==
    SortContexts(ScoreLoop(speaker_parents, 1, 0, <<>>))

\* lines 153-173
ScoreSpeakers(speaker_parents, minc) == SortContexts(ScoreLoop(speaker_parents, 1, minc, <<>>))

RECURSIVE BackfillLoop(_, _, _, _)
BackfillLoop(sp, i, topk, acc) ==
    IF i > Len(sp) THEN acc
    ELSE IF \E k \in 1..Len(acc) : acc[k].speaker = sp[i].speaker
         THEN BackfillLoop(sp, i + 1, topk, acc)
    ELSE IF Len(acc) >= topk THEN acc
    ELSE BackfillLoop(sp, i + 1, topk,
                      Append(acc, MakeContext(sp[i].speaker, sp[i].chunks)))

\* the backfill without the second sort
BackfillNoResort(speaker_scores, speaker_parents, topk) ==
    IF Len(speaker_scores) < topk
    THEN BackfillLoop(speaker_parents, 1, topk, speaker_scores)
    ELSE speaker_scores

\* no backfill pass
BackfillNone(speaker_scores, speaker_parents, topk) == speaker_scores

\* lines 175-193
Backfill(speaker_scores, speaker_parents, topk) ==
    IF Len(speaker_scores) < topk
    THEN SortContexts(BackfillLoop(speaker_parents, 1, topk, speaker_scores))
    ELSE speaker_scores

\* line 195, top_k >= 0
TopK(scs, topk) == SubSeq(scs, 1, Min(topk, Len(scs)))

\* lines 105-195
RankHits(hits, order, topk, minc) ==
    LET parent_scores == CollectParents(hits)
        parent_ids == [i \in 1..Len(parent_scores) |-> parent_scores[i].id]
        parent_map == get_parent_chunks(parent_ids, order)
        speaker_parents == GroupBySpeaker(parent_scores, parent_map)
    IN  TopK(Backfill(ScoreSpeakers(speaker_parents, minc), speaker_parents, topk), topk)

\* ------------------------------------------------------------------------
\* parse_transcript and chunk_turn as the corpus loops call them
\* ------------------------------------------------------------------------

\* parser.py lines 170-286 on the text of a file that was decoded
ParseText(t) ==
    IF SpeakerMatches(t) = <<>> THEN <<>>
    ELSE ExtractGuestTurns(MergeTurns(FillTurns(t, BuildMarkers(t)).turns)).out

RECURSIVE ChunkLoop(_, _, _, _, _, _)
ChunkLoop(t, maxc, ov, paras, i, st) ==
    IF i > Len(paras) THEN st
    ELSE ChunkLoop(t, maxc, ov, paras, i + 1, ChunkStep(t, maxc, ov, st, paras[i]))

\* parser.py lines 289-347
chunk_turn(t, maxc, ov) ==
    IF Len(t.text) <= maxc THEN <<MakeChunk(t, t.text, 0)>>
    ELSE ChunkLast(t, ChunkLoop(t, maxc, ov, SplitParagraphs(t.text), 1,
                                [cur |-> "", idx |-> 0, out |-> <<>>]))

\* ------------------------------------------------------------------------
\* ingest.py: create_parent_documents
\* ------------------------------------------------------------------------

PARENT_CHUNK_SIZE == 2048

\* overlap=200 in the call of chunk_turn (line 71)
ParentOverlap == 200

\* preceding_question[:500] (line 96)
QuestionCut == 500

\* str.replace(a, b) for single characters
RECURSIVE ReplaceChar(_, _, _)
ReplaceChar(str, a, b) ==
    IF Len(str) = 0 THEN ""
    ELSE IF Len(str) = 1 THEN (IF str = a THEN b ELSE str)
    ELSE LET h == Len(str) \div 2
         IN  ReplaceChar(SubSeq(str, 1, h), a, b)
                 \o ReplaceChar(SubSeq(str, h + 1, Len(str)), a, b)

\* the decimal digits of n >= 0
RECURSIVE Decimal(_)
Decimal(n) ==
    IF n < 10 THEN CharAt(DigitStr, n + 1)
    ELSE Decimal(n \div 10) \o CharAt(DigitStr, (n % 10) + 1)

\* f"{n:06d}"
ZeroPad6(n) ==
    LET d == Decimal(n)
    IN  IF Len(d) >= 6 THEN d ELSE SubSeq("000000", 1, 6 - Len(d)) \o d

\* lines 82-83
ParentId(counter, chunk) ==
    ReplaceChar(ReplaceChar("doc_" \o ZeroPad6(counter) \o "_" \o chunk.speaker
                                \o "_" \o chunk.timestamp, " ", "_"), ":", "-")

\* lines 77-79
DocText(chunk) ==
    IF chunk.preceding_question # ""
    THEN "Question: " \o chunk.preceding_question \o "\n\nAnswer: " \o chunk.text
    ELSE chunk.text

\* lines 90-100
MakeDocument(chunk, parent_id) ==
    [text |-> DocText(chunk),
     metadata |-> [speaker |-> chunk.speaker,
                   source_file |-> chunk.source_file,
                   timestamp |-> chunk.timestamp,
                   preceding_question |-> SubSeq(chunk.preceding_question, 1,
                                                 Min(QuestionCut, Len(chunk.preceding_question))),
                   parent_id |-> parent_id],
     id_ |-> parent_id]

\* dict assignment d[k] = v
DictSet(d, k, v) == [x \in DOMAIN d \cup {k} |-> IF x = k THEN v ELSE d[x]]

EmptyDict == [x \in {} |-> ""]

\* lines 73-101: one chunk; st = [docs, store, counter, printed]
IngestChunk(st, chunk) ==
    LET parent_id == ParentId(st.counter, chunk)
    IN  [st EXCEPT !.counter = @ + 1,
                   !.store = DictSet(@, parent_id, DocText(chunk)),
                   !.docs = Append(@, MakeDocument(chunk, parent_id))]

RECURSIVE IngestChunks(_, _, _)
IngestChunks(st, cs, i) ==
    IF i > Len(cs) THEN st ELSE IngestChunks(IngestChunk(st, cs[i]), cs, i + 1)

\* lines 70-101: the turns of one file
RECURSIVE IngestTurns(_, _, _)
IngestTurns(st, turns, i) ==
    IF i > Len(turns) THEN st
    ELSE IngestTurns(IngestChunks(st, chunk_turn(turns[i], PARENT_CHUNK_SIZE, ParentOverlap), 1),
                     turns, i + 1)

\* the failing file is reported and its number is used up
IngestErrorCounted(st, file) ==
    [st EXCEPT !.printed = Append(@, file.name), !.counter = @ + 1]

\* lines 62-64: the failing file is reported and skipped
IngestError(st, file) == [st EXCEPT !.printed = Append(@, file.name)]

\* Path.read_text(encoding='utf-8') raises for a file that is not UTF-8; Turns
\* carry the name of the file as source_file (parser.py line 171)
WithSource(ts, name) == [i \in 1..Len(ts) |-> [ts[i] EXCEPT !.source_file = name]]

TurnsOfFile(file) == WithSource(ParseText(file.text), file.name)

\* lines 57-101: one file
IngestFile(st, file) ==
    IF ~file.decodable THEN IngestError(st, file)
    ELSE IngestTurns(st, TurnsOfFile(file), 1)

IngestStart == [docs |-> <<>>, store |-> EmptyDict, counter |-> 0, printed |-> <<>>]

RECURSIVE IngestFiles(_, _, _)
IngestFiles(st, files, i) ==
    IF i > Len(files) THEN st ELSE IngestFiles(IngestFile(st, files[i]), files, i + 1)

\* ------------------------------------------------------------------------
\* verify.py: verify_transcript, verify_all
\* ------------------------------------------------------------------------

\* min_capture = 0.95, in percent
MinCapturePct == 95

\* lines 45-54: a rejected name leaves no marker
VerifySpeakerMarkers(sm) ==
    LET RECURSIVE Go(_)
        Go(i) ==
            IF i > Len(sm) THEN <<>>
            ELSE (IF is_valid_speaker_name(Strip(sm[i].name))
                  THEN <<[start |-> sm[i].start, end |-> sm[i].end,
                          speaker |-> Strip(sm[i].name), timestamp |-> sm[i].ts]>>
                  ELSE <<>>) \o Go(i + 1)
    IN  Go(1)

\* lines 44-62
VerifyMarkers(t) ==
    LET tm == TimestampMatches(t)
    IN  SortByStart(VerifySpeakerMarkers(SpeakerMatches(t))
                        \o [i \in 1..Len(tm) |->
                               [start |-> tm[i].start, end |-> tm[i].end,
                                speaker |-> NoneVal, timestamp |-> tm[i].ts]])

\* lines 65-70: a continuation takes the speaker of the nearest earlier marker
\* that has one
RECURSIVE VerifyFill(_, _, _)
VerifyFill(ms, i, cur) ==
    IF i > Len(ms) THEN <<>>
    ELSE LET spk == IF ms[i].speaker = NoneVal THEN cur ELSE ms[i].speaker
         IN  <<[ms[i] EXCEPT !.speaker = spk]>> \o VerifyFill(ms, i + 1, spk)

\* the count with the parser's 100-character floor applied to each marker
RECURSIVE GuestCharsFloored(_, _, _)
GuestCharsFloored(t, ms, i) ==
    IF i > Len(ms) THEN 0
    ELSE LET start == ms[i].end
             end == IF i + 1 <= Len(ms) THEN ms[i + 1].start ELSE Len(t)
             content_len == end - start
         IN  (IF ms[i].speaker # NoneVal /\ ms[i].speaker # "" /\ ~is_host(ms[i].speaker)
                 /\ content_len >= 100
              THEN content_len ELSE 0) + GuestCharsFloored(t, ms, i + 1)

\* lines 73-80
RECURSIVE GuestChars(_, _, _)
GuestChars(t, ms, i) ==
    IF i > Len(ms) THEN 0
    ELSE LET start == ms[i].end
             end == IF i + 1 <= Len(ms) THEN ms[i + 1].start ELSE Len(t)
             content_len == end - start
         IN  (IF ms[i].speaker # NoneVal /\ ms[i].speaker # "" /\ ~is_host(ms[i].speaker)
              THEN content_len ELSE 0) + GuestChars(t, ms, i + 1)

RECURSIVE SumTextLen(_)
SumTextLen(turns) ==
    IF turns = <<>> THEN 0 ELSE Len(turns[1].text) + SumTextLen(Tail(turns))

\* lines 32-95; capture_ratio is parsed_guest_chars / guest_chars, and 1.0 when
\* guest_chars is 0
VerifyRecord(file, guest, turns) ==
    [file |-> file.name,
     total_chars |-> Len(file.text),
     guest_chars |-> guest,
     parsed_turns |-> Len(turns),
     parsed_guest_chars |-> SumTextLen(turns),
     speakers |-> {turns[i].speaker : i \in 1..Len(turns)}]

\* lines 16-95
verify_transcript(file) ==
    VerifyRecord(file,
                 GuestChars(file.text, VerifyFill(VerifyMarkers(file.text), 1, NoneVal), 1),
                 ParseText(file.text))

\* capture < min_capture (line 135)
BelowCapture(result) ==
    /\ result.guest_chars > 0
    /\ result.parsed_guest_chars * 100 < MinCapturePct * result.guest_chars

\* lines 148-150
VerifyError(st, file) ==
    [st EXCEPT !.issues = Append(@, [file |-> file.name, error |-> "decode"]),
               !.printed = Append(@, [file |-> file.name, status |-> "ERROR"])]

\* lines 127-146; with at most 50 files every result is printed
VerifyCollect(st, result) ==
    [st EXCEPT !.total_turns = @ + result.parsed_turns,
               !.total_chars = @ + result.parsed_guest_chars,
               !.all_speakers = @ \cup result.speakers,
               !.issues = IF BelowCapture(result) THEN Append(@, result) ELSE @,
               !.printed = Append(@, [file |-> result.file,
                                      status |-> IF BelowCapture(result)
                                                 THEN "FAIL" ELSE "OK"])]

\* lines 127-128
VerifyOk(st, file) == VerifyCollect(st, verify_transcript(file))

\* lines 125-150: one file
VerifyFile(st, file) ==
    IF ~file.decodable THEN VerifyError(st, file) ELSE VerifyOk(st, file)

VerifyStart ==
    [issues |-> <<>>, all_speakers |-> {}, total_turns |-> 0, total_chars |-> 0,
     printed |-> <<>>]

\* ------------------------------------------------------------------------
\* State
\* ------------------------------------------------------------------------

VARIABLES
    text,               \* parse_transcript: the contents of the file
    pc,                 \* parse_transcript: position in the call
    all_markers,        \* parse_transcript locals
    raw_turns,
    current_speaker,
    merged_turns,
    ext_i,              \* index of the merged turn the extraction loop is at
    last_host_question,
    guest_turns,
    calls,              \* the values returned by the calls made so far
    turn,               \* chunk_turn: its arguments
    max_chars,
    overlap,
    cpc,                \* chunk_turn: position in the call
    paragraphs,         \* chunk_turn locals
    para_i,
    current_chunk,
    chunk_index,
    chunks,
    child_results,      \* rank_speakers: the hits of the child search, nearest first
    top_k,              \* rank_speakers: its arguments
    min_chunks,
    parent_gets,        \* number of get() requests sent to the parent collection
    ranked,             \* the values returned by the calls made so far
    files,              \* the corpus: sorted(transcripts_dir.glob("*.txt"))
    ingest_i,           \* create_parent_documents: index of the next file
    ingest_pc,
    parent_documents,   \* create_parent_documents locals
    parent_store,
    global_chunk_counter,
    ingest_printed,     \* names of the files reported as failing
    verify_i,           \* verify_all: index of the next file
    verify_pc,
    issues,             \* verify_all locals
    all_speakers,
    total_turns,
    total_chars,
    verify_printed,     \* the result lines printed, one per file
    vpc,                \* verify_transcript: position in the call
    guest_chars,        \* verify_transcript locals
    verify_result       \* the dictionary verify_transcript returned

parseVars == <<text, pc, all_markers, raw_turns, current_speaker, merged_turns,
               ext_i, last_host_question, guest_turns, calls>>

chunkVars == <<turn, max_chars, overlap, cpc, paragraphs, para_i, current_chunk,
               chunk_index, chunks>>

rankVars == <<child_results, top_k, min_chunks, parent_gets, ranked>>

ingestVars == <<ingest_i, ingest_pc, parent_documents, parent_store, global_chunk_counter,
                ingest_printed>>

verifyVars == <<verify_i, verify_pc, issues, all_speakers, total_turns, total_chars,
                verify_printed>>

transcriptVars == <<vpc, guest_chars, verify_result>>

corpusVars == <<files, ingestVars, verifyVars, transcriptVars>>

vars == <<parseVars, chunkVars, rankVars, corpusVars>>

\* ------------------------------------------------------------------------
\* Transcripts: up to MaxSegs segments, each a marker line and its body
\* ------------------------------------------------------------------------

MaxSegs == 3

\* the same file is parsed this many times in a row
ParseRuns == 2

Answer ==
    "We started with a tiny group of users and talked to every one of them each week for a whole year long."

Question ==
    "So when you first started the company, what did the early growth look like and how did you keep it going?"

\* 49 characters: two of them merged make exactly 100
Reply == "It took us 12 months to see the numbers were off."

Aside == "And then it all changed again."

TimestampedSegs == {
    "LENNY (00:00:01):\n" \o Question \o "\n",
    "Lenny Rachitsky (0:05):\nThis episode is brought to you by Acme.\n",
    "KUNAL SHAH (00:00:08):\n" \o Answer \o "\n",
    "Ada Wong (1:02:03):\n" \o Answer \o " Indeed.\n",
    "KUNAL SHAH (00:02:00):\n" \o Reply \o "\n",
    "(00:00:48):\nPlease check out our site.\n",
    "Yeah (00:01:00):\n" \o Aside \o "\n" }

UntimestampedSegs == {
    "Lenny:\nWhy?\n",
    "Kunal Shah:\n" \o Answer \o "\n",
    "Yeah:\n" \o Aside \o "\n",
    "(00:00:48):\n" \o Aside \o "\n" }

RECURSIVE Concat(_)
Concat(ss) == IF ss = <<>> THEN "" ELSE ss[1] \o Concat(Tail(ss))

SeqsUpTo(S, n) == UNION {[1..k -> S] : k \in 0..n}

Transcripts ==
    {Concat(ss) : ss \in SeqsUpTo(TimestampedSegs, MaxSegs)
                          \cup SeqsUpTo(UntimestampedSegs, MaxSegs)}

\* a guest's turn followed by timestamp-only lines that have no body
StampOnly == "(00:00:48):\n"

EmptyContinuations ==
    {g \o Concat(ss) : g \in {"KUNAL SHAH (00:00:08):\n" \o Answer \o "\n",
                              "KUNAL SHAH (00:02:00):\n" \o Reply \o "\n"},
                       ss \in SeqsUpTo({StampOnly}, MaxSegs)}

VerifyTranscripts == Transcripts \cup EmptyContinuations

\* ------------------------------------------------------------------------
\* parse_transcript, phase by phase
\* ------------------------------------------------------------------------

ParseIdle ==
    /\ text = ""
    /\ pc = "idle"
    /\ all_markers = <<>>
    /\ raw_turns = <<>>
    /\ current_speaker = NoneVal
    /\ merged_turns = <<>>
    /\ ext_i = 1
    /\ last_host_question = ""
    /\ guest_turns = <<>>
    /\ calls = <<>>

NoTurn ==
    [speaker |-> "", timestamp |-> "", text |-> "", preceding_question |-> "",
     source_file |-> ""]

ChunkIdle ==
    /\ turn = NoTurn
    /\ max_chars = 0
    /\ overlap = 0
    /\ cpc = "idle"
    /\ paragraphs = <<>>
    /\ para_i = 1
    /\ current_chunk = ""
    /\ chunk_index = 0
    /\ chunks = <<>>

RankIdle ==
    /\ child_results = <<>>
    /\ top_k = 0
    /\ min_chunks = 0
    /\ parent_gets = 0
    /\ ranked = <<>>

NoResult ==
    [file |-> "", total_chars |-> 0, guest_chars |-> 0, parsed_turns |-> 0,
     parsed_guest_chars |-> 0, speakers |-> {}]

CorpusIdle ==
    /\ files = <<>>
    /\ ingest_i = 1
    /\ ingest_pc = "idle"
    /\ parent_documents = <<>>
    /\ parent_store = EmptyDict
    /\ global_chunk_counter = 0
    /\ ingest_printed = <<>>
    /\ verify_i = 1
    /\ verify_pc = "idle"
    /\ issues = <<>>
    /\ all_speakers = {}
    /\ total_turns = 0
    /\ total_chars = 0
    /\ verify_printed = <<>>
    /\ vpc = "idle"
    /\ guest_chars = 0
    /\ verify_result = NoResult

ParseInit ==
    /\ ChunkIdle
    /\ RankIdle
    /\ CorpusIdle
    /\ text \in Transcripts
    /\ pc = "scan"
    /\ all_markers = <<>>
    /\ raw_turns = <<>>
    /\ current_speaker = NoneVal
    /\ merged_turns = <<>>
    /\ ext_i = 1
    /\ last_host_question = ""
    /\ guest_turns = <<>>
    /\ calls = <<>>

\* the question left over from the previous call
StaleQuestion == last_host_question

\* line 257: the extraction loop starts from an empty question
FreshQuestion == ""

\* without the early return, speaker_matches[0] of an empty list raises
ParseEmptyRaise ==
    /\ pc = "scan"
    /\ SpeakerMatches(text) = <<>>
    /\ pc' = "raised"
    /\ UNCHANGED <<chunkVars, rankVars, corpusVars, text, all_markers, raw_turns, current_speaker,
                   merged_turns, ext_i, last_host_question, guest_turns, calls>>

\* lines 170-183: no speaker marker in either dialect: return []
ParseEmpty ==
    /\ pc = "scan"
    /\ SpeakerMatches(text) = <<>>
    /\ calls' = Append(calls, <<>>)
    /\ pc' = "done"
    /\ UNCHANGED <<chunkVars, rankVars, corpusVars, text, all_markers, raw_turns, current_speaker, merged_turns,
                   ext_i, last_host_question, guest_turns>>

\* lines 170-221
ParseScan ==
    /\ pc = "scan"
    /\ SpeakerMatches(text) # <<>>
    /\ all_markers' = BuildMarkers(text)
    /\ pc' = "fill"
    /\ UNCHANGED <<chunkVars, rankVars, corpusVars, text, raw_turns, current_speaker, merged_turns, ext_i,
                   last_host_question, guest_turns, calls>>

\* lines 223-244
ParseFill ==
    /\ pc = "fill"
    /\ LET r == FillTurns(text, all_markers)
       IN  /\ raw_turns' = r.turns
           /\ current_speaker' = r.cur
    /\ pc' = "merge"
    /\ UNCHANGED <<chunkVars, rankVars, corpusVars, text, all_markers, merged_turns, ext_i, last_host_question,
                   guest_turns, calls>>

\* lines 246-257
ParseMerge ==
    /\ pc = "merge"
    /\ merged_turns' = MergeTurns(raw_turns)
    /\ guest_turns' = <<>>
    /\ last_host_question' = FreshQuestion
    /\ ext_i' = 1
    /\ pc' = "extract"
    /\ UNCHANGED <<chunkVars, rankVars, corpusVars, text, all_markers, raw_turns, current_speaker, calls>>

\* lines 259-284: one iteration of the extraction loop
ParseExtract ==
    /\ pc = "extract"
    /\ ext_i <= Len(merged_turns)
    /\ LET acc == ExtractStep([q |-> last_host_question, out |-> guest_turns],
                              merged_turns[ext_i])
       IN  /\ last_host_question' = acc.q
           /\ guest_turns' = acc.out
    /\ ext_i' = ext_i + 1
    /\ UNCHANGED <<chunkVars, rankVars, corpusVars, text, pc, all_markers, raw_turns, current_speaker,
                   merged_turns, calls>>

\* line 286
ParseReturn ==
    /\ pc = "extract"
    /\ ext_i > Len(merged_turns)
    /\ calls' = Append(calls, guest_turns)
    /\ pc' = "done"
    /\ UNCHANGED <<chunkVars, rankVars, corpusVars, text, all_markers, raw_turns, current_speaker, merged_turns,
                   ext_i, last_host_question, guest_turns>>

\* the caller parses the same file again
ParseAgain ==
    /\ pc = "done"
    /\ Len(calls) < ParseRuns
    /\ pc' = "scan"
    /\ UNCHANGED <<chunkVars, rankVars, corpusVars, text, all_markers, raw_turns, current_speaker, merged_turns,
                   ext_i, last_host_question, guest_turns, calls>>

ParseNext ==
    \/ ParseEmpty
    \/ ParseScan
    \/ ParseFill
    \/ ParseMerge
    \/ ParseExtract
    \/ ParseReturn
    \/ ParseAgain

SpecParse == ParseInit /\ [][ParseNext]_vars

\* ------------------------------------------------------------------------
\* Transcripts of one marker line and its body
\* ------------------------------------------------------------------------

MarkerNames == {"KUNAL SHAH", "ADA WONG-LEE", "SPONSOR", "LENNY", "Kunal Shah", "YEAH"}

MarkerTimestamps == {"00:00:08", "1:02"}

SponsorBody ==
    "A quick word before we go on with the talk: use the promo code GROWTH to get three months for free today."

MarkerBodies == {Answer, "  " \o Answer \o "\n\n", Reply, SponsorBody}

OneMarkerTexts ==
    {n \o " (" \o ts \o "):\n" \o b \o "\n" :
        n \in MarkerNames, ts \in MarkerTimestamps, b \in MarkerBodies}
        \cup {Answer \o "\n"}

OneMarkerInit ==
    /\ ChunkIdle
    /\ RankIdle
    /\ CorpusIdle
    /\ text \in OneMarkerTexts
    /\ pc = "scan"
    /\ all_markers = <<>>
    /\ raw_turns = <<>>
    /\ current_speaker = NoneVal
    /\ merged_turns = <<>>
    /\ ext_i = 1
    /\ last_host_question = ""
    /\ guest_turns = <<>>
    /\ calls = <<>>

SpecOneMarker == OneMarkerInit /\ [][ParseNext]_vars

\* ------------------------------------------------------------------------
\* Turns handed to chunk_turn: up to MaxParas paragraphs joined by blank lines
\* ------------------------------------------------------------------------

MaxParas == 3

RECURSIVE Rep(_, _)
Rep(s, n) == IF n = 0 THEN "" ELSE s \o Rep(s, n - 1)

\* paragraph k of a body: n characters, told apart from the other paragraphs
Para(k, n) == SubSeq(Rep(CharAt("abcd", k) \o "123456789", 15), 1, n)

ParaLens == {0, 30, 99, 100, 140}

MaxCharsChoices == {60, 100, 150}

OverlapChoices == {0, 20, 120}

RECURSIVE JoinParas(_)
JoinParas(ps) ==
    IF ps = <<>> THEN ""
    ELSE IF Len(ps) = 1 THEN ps[1]
    ELSE ps[1] \o "\n\n" \o JoinParas(Tail(ps))

Bodies ==
    {JoinParas([k \in 1..Len(ls) |-> Para(k, ls[k])]) :
        ls \in UNION {[1..n -> ParaLens] : n \in 1..MaxParas}}

\* bodies of at least 100 characters, the shortest parse_transcript returns
ChunkInit ==
    /\ ParseIdle
    /\ RankIdle
    /\ CorpusIdle
    /\ \E b \in Bodies :
          /\ Len(b) >= 100
          /\ turn = [speaker |-> "Kunal Shah", timestamp |-> "00:00:08", text |-> b,
                     preceding_question |-> "What is growth?",
                     source_file |-> SourceFile]
    /\ max_chars \in MaxCharsChoices
    /\ overlap \in OverlapChoices
    /\ cpc = "start"
    /\ paragraphs = <<>>
    /\ para_i = 1
    /\ current_chunk = ""
    /\ chunk_index = 0
    /\ chunks = <<>>

\* lines 295-305: the body fits, one chunk
ChunkWhole ==
    /\ cpc = "start"
    /\ Len(turn.text) <= max_chars
    /\ chunks' = <<MakeChunk(turn, turn.text, 0)>>
    /\ cpc' = "done"
    /\ UNCHANGED <<parseVars, rankVars, corpusVars, turn, max_chars, overlap, paragraphs, para_i,
                   current_chunk, chunk_index>>

\* lines 307-311
ChunkSplit ==
    /\ cpc = "start"
    /\ Len(turn.text) > max_chars
    /\ paragraphs' = SplitParagraphs(turn.text)
    /\ chunks' = <<>>
    /\ current_chunk' = ""
    /\ chunk_index' = 0
    /\ para_i' = 1
    /\ cpc' = "loop"
    /\ UNCHANGED <<parseVars, rankVars, corpusVars, turn, max_chars, overlap>>

\* lines 313-334: one paragraph
ChunkPara ==
    /\ cpc = "loop"
    /\ para_i <= Len(paragraphs)
    /\ LET st == ChunkStep(turn, max_chars, overlap,
                           [cur |-> current_chunk, idx |-> chunk_index, out |-> chunks],
                           paragraphs[para_i])
       IN  /\ current_chunk' = st.cur
           /\ chunk_index' = st.idx
           /\ chunks' = st.out
    /\ para_i' = para_i + 1
    /\ UNCHANGED <<parseVars, rankVars, corpusVars, turn, max_chars, overlap, cpc, paragraphs>>

\* lines 336-347
ChunkReturn ==
    /\ cpc = "loop"
    /\ para_i > Len(paragraphs)
    /\ chunks' = ChunkLast(turn, [cur |-> current_chunk, idx |-> chunk_index,
                                  out |-> chunks])
    /\ cpc' = "done"
    /\ UNCHANGED <<parseVars, rankVars, corpusVars, turn, max_chars, overlap, paragraphs, para_i,
                   current_chunk, chunk_index>>

ChunkNext ==
    \/ ChunkWhole
    \/ ChunkSplit
    \/ ChunkPara
    \/ ChunkReturn

SpecChunk == ChunkInit /\ [][ChunkNext]_vars

\* ------------------------------------------------------------------------
\* Child searches: up to MaxHits hits, nearest first
\* ------------------------------------------------------------------------

MaxHits == 3

\* the same query is ranked this many times in a row
RankRuns == 2

\* "p9" is a parent that the parent collection no longer holds
HitParents == {"p1", "p2", "p3", "p5", "p9"}

\* distance 1.0 gives similarity 0
DistChoices == {2, 10}

TopKChoices == {0, 1, 2}

MinChunksChoices == {0, 1, 2, 3}

HitLists ==
    {h \in UNION {[1..n -> [parent_id : HitParents, distance : DistChoices]] : n \in 0..MaxHits} :
        \A i \in 1..(Len(h) - 1) : h[i].distance <= h[i + 1].distance}

Orders(S) == {o \in [1..Cardinality(S) -> S] : \A i, j \in DOMAIN o : i # j => o[i] # o[j]}

RankInit ==
    /\ ParseIdle
    /\ ChunkIdle
    /\ CorpusIdle
    /\ child_results \in HitLists
    /\ top_k \in TopKChoices
    /\ min_chunks \in MinChunksChoices
    /\ parent_gets = 0
    /\ ranked = <<>>

\* no early return: the parent collection is asked for an empty list of ids
RankEmptyQuery ==
    /\ Len(ranked) < RankRuns
    /\ child_results = <<>>
    /\ ranked' = Append(ranked, <<>>)
    /\ parent_gets' = parent_gets + 1
    /\ UNCHANGED <<parseVars, chunkVars, corpusVars, child_results, top_k, min_chunks>>

\* lines 99-103: no hit: return [] at once
RankEmpty ==
    /\ Len(ranked) < RankRuns
    /\ child_results = <<>>
    /\ ranked' = Append(ranked, <<>>)
    /\ UNCHANGED <<parseVars, chunkVars, corpusVars, child_results, top_k, min_chunks, parent_gets>>

\* lines 105-195; the parent collection answers in an order of its own
RankCall ==
    /\ Len(ranked) < RankRuns
    /\ child_results # <<>>
    /\ LET parent_scores == CollectParents(child_results)
           parent_ids == [i \in 1..Len(parent_scores) |-> parent_scores[i].id]
       IN  /\ \E order \in Orders(FoundIds(parent_ids)) :
                 ranked' = Append(ranked, RankHits(child_results, order, top_k, min_chunks))
           /\ parent_gets' = IF parent_ids = <<>> THEN parent_gets ELSE parent_gets + 1
    /\ UNCHANGED <<parseVars, chunkVars, corpusVars, child_results, top_k, min_chunks>>

RankNext ==
    \/ RankEmpty
    \/ RankCall

SpecRank == RankInit /\ [][RankNext]_vars

\* ------------------------------------------------------------------------
\* Corpora: up to MaxFiles of the files below, in the order of their names
\* ------------------------------------------------------------------------

MaxFiles == 3

\* an answer of two paragraphs, longer than PARENT_CHUNK_SIZE
LongAnswer == Rep("a123456789", 110) \o "\n\n" \o Rep("b123456789", 110)

\* a guest turn under the 100-character floor
ShortRemark == "Yeah, exactly right."

CandidateFiles ==
    << [name |-> "a_kunal.txt", decodable |-> TRUE,
        text |-> "KUNAL SHAH (00:00:08):\n" \o Answer \o "\n"],
       [name |-> "b_binary.txt", decodable |-> FALSE, text |-> ""],
       [name |-> "c_ada.txt", decodable |-> TRUE,
        text |-> "Lenny (00:00:01):\n" \o Question \o "\n"
                     \o "Ada Wong (00:01:00):\n" \o LongAnswer \o "\n"
                     \o "Kunal Shah (00:05:00):\n" \o ShortRemark \o "\n"],
       [name |-> "d_notes.txt", decodable |-> TRUE,
        text |-> "Notes of the recording, no speaker in here.\n"],
       [name |-> "e_broken.txt", decodable |-> FALSE, text |-> ""] >>

\* the files of CandidateFiles at the indices in S, in order
RECURSIVE Pick(_, _)
Pick(S, i) ==
    IF i > Len(CandidateFiles) THEN <<>>
    ELSE (IF i \in S THEN <<CandidateFiles[i]>> ELSE <<>>) \o Pick(S, i + 1)

Corpora ==
    {Pick(S, 1) : S \in {T \in SUBSET (1..Len(CandidateFiles)) : Cardinality(T) <= MaxFiles}}

CorpusInit ==
    /\ ParseIdle
    /\ ChunkIdle
    /\ RankIdle
    /\ files \in Corpora
    /\ ingest_i = 1
    /\ ingest_pc = "loop"
    /\ parent_documents = <<>>
    /\ parent_store = EmptyDict
    /\ global_chunk_counter = 0
    /\ ingest_printed = <<>>
    /\ verify_i = 1
    /\ verify_pc = "loop"
    /\ issues = <<>>
    /\ all_speakers = {}
    /\ total_turns = 0
    /\ total_chars = 0
    /\ verify_printed = <<>>
    /\ vpc = "idle"
    /\ guest_chars = 0
    /\ verify_result = NoResult

\* ingest.py lines 57-101: one file of the corpus
IngestStep ==
    /\ ingest_pc = "loop"
    /\ ingest_i <= Len(files)
    /\ \E st \in {IngestFile([docs |-> parent_documents, store |-> parent_store,
                              counter |-> global_chunk_counter, printed |-> ingest_printed],
                             files[ingest_i])} :
           /\ parent_documents' = st.docs
           /\ parent_store' = st.store
           /\ global_chunk_counter' = st.counter
           /\ ingest_printed' = st.printed
    /\ ingest_i' = ingest_i + 1
    /\ UNCHANGED <<parseVars, chunkVars, rankVars, transcriptVars, files, ingest_pc, verifyVars>>

\* ingest.py line 107
IngestReturn ==
    /\ ingest_pc = "loop"
    /\ ingest_i > Len(files)
    /\ ingest_pc' = "done"
    /\ UNCHANGED <<parseVars, chunkVars, rankVars, transcriptVars, files, ingest_i, parent_documents,
                   parent_store, global_chunk_counter, ingest_printed, verifyVars>>

\* verify.py lines 111-113: no file, verify_all returns False
VerifyEmpty ==
    /\ verify_pc = "loop"
    /\ files = <<>>
    /\ verify_pc' = "failed"
    /\ UNCHANGED <<parseVars, chunkVars, rankVars, transcriptVars, files, ingestVars, verify_i, issues,
                   all_speakers, total_turns, total_chars, verify_printed>>

\* verify.py lines 125-150: one file of the corpus
VerifyStep ==
    /\ verify_pc = "loop"
    /\ verify_i <= Len(files)
    /\ \E st \in {VerifyFile([issues |-> issues, all_speakers |-> all_speakers,
                              total_turns |-> total_turns, total_chars |-> total_chars,
                              printed |-> verify_printed],
                             files[verify_i])} :
           /\ issues' = st.issues
           /\ all_speakers' = st.all_speakers
           /\ total_turns' = st.total_turns
           /\ total_chars' = st.total_chars
           /\ verify_printed' = st.printed
    /\ verify_i' = verify_i + 1
    /\ UNCHANGED <<parseVars, chunkVars, rankVars, transcriptVars, files, ingestVars, verify_pc>>

\* verify.py lines 160-172
VerifyReturn ==
    /\ verify_pc = "loop"
    /\ files # <<>>
    /\ verify_i > Len(files)
    /\ verify_pc' = IF issues # <<>> THEN "failed" ELSE "passed"
    /\ UNCHANGED <<parseVars, chunkVars, rankVars, transcriptVars, files, ingestVars, verify_i, issues,
                   all_speakers, total_turns, total_chars, verify_printed>>

CorpusNext ==
    \/ IngestStep
    \/ IngestReturn
    \/ VerifyEmpty
    \/ VerifyStep
    \/ VerifyReturn

SpecCorpus == CorpusInit /\ [][CorpusNext]_vars

\* ------------------------------------------------------------------------
\* verify_transcript on one transcript
\* ------------------------------------------------------------------------

VerifyInit ==
    /\ ChunkIdle
    /\ RankIdle
    /\ files = <<>>
    /\ ingest_i = 1
    /\ ingest_pc = "idle"
    /\ parent_documents = <<>>
    /\ parent_store = EmptyDict
    /\ global_chunk_counter = 0
    /\ ingest_printed = <<>>
    /\ verify_i = 1
    /\ verify_pc = "idle"
    /\ issues = <<>>
    /\ all_speakers = {}
    /\ total_turns = 0
    /\ total_chars = 0
    /\ verify_printed = <<>>
    /\ text \in VerifyTranscripts
    /\ pc = "idle"
    /\ all_markers = <<>>
    /\ raw_turns = <<>>
    /\ current_speaker = NoneVal
    /\ merged_turns = <<>>
    /\ ext_i = 1
    /\ last_host_question = ""
    /\ guest_turns = <<>>
    /\ calls = <<>>
    /\ vpc = "count"
    /\ guest_chars = 0
    /\ verify_result = NoResult

\* verify.py lines 32-83: the marker scan and the count, then parse_transcript
\* is called
VerifyCount ==
    /\ vpc = "count"
    /\ guest_chars' = GuestChars(text, VerifyFill(VerifyMarkers(text), 1, NoneVal), 1)
    /\ vpc' = "parse"
    /\ pc' = "scan"
    /\ UNCHANGED <<chunkVars, rankVars, files, ingestVars, verifyVars, verify_result, text,
                   all_markers, raw_turns, current_speaker, merged_turns, ext_i,
                   last_host_question, guest_turns, calls>>

\* verify.py lines 84-95: parse_transcript has returned
VerifyResult ==
    /\ vpc = "parse"
    /\ pc = "done"
    /\ LET turns == calls[Len(calls)]
       IN  verify_result' = [file |-> SourceFile,
                             total_chars |-> Len(text),
                             guest_chars |-> guest_chars,
                             parsed_turns |-> Len(turns),
                             parsed_guest_chars |-> SumTextLen(turns),
                             speakers |-> {turns[i].speaker : i \in 1..Len(turns)}]
    /\ vpc' = "done"
    /\ UNCHANGED <<parseVars, chunkVars, rankVars, files, ingestVars, verifyVars, guest_chars>>

VerifyNext ==
    \/ VerifyCount
    \/ ParseEmpty
    \/ ParseScan
    \/ ParseFill
    \/ ParseMerge
    \/ ParseExtract
    \/ ParseReturn
    \/ VerifyResult

SpecVerify == VerifyInit /\ [][VerifyNext]_vars

\* ------------------------------------------------------------------------
\* Claims about parse_transcript (SpecParse)
\* ------------------------------------------------------------------------

HostName(speaker) == Strip(Lower(speaker)) \in HOST_NAMES

Returned == {calls[c] : c \in 1..Len(calls)}

\* C1: no Turn that parse_transcript returns (or has collected so far) has a
\* speaker whose trimmed, lower-cased name is in the host identity list.
C1_NoHostTurn ==
    \A ts \in Returned \cup {guest_turns} :
        \A k \in 1..Len(ts) : ~HostName(ts[k].speaker)

\* a call has returned guest turns from a transcript that also holds host turns
C1_Witness ==
    /\ pc = "done"
    /\ Len(calls) >= 1
    /\ calls[1] # <<>>
    /\ \E i \in 1..Len(raw_turns) : HostName(raw_turns[i].speaker)

\* C2 as stated: whenever the extraction loop emits a Turn, the merged turn just
\* before it is a host turn and its body is the Turn's preceding_question.
C2_ImmediateHost ==
    [][Len(guest_turns') > Len(guest_turns) =>
          /\ ext_i > 1
          /\ HostName(merged_turns[ext_i - 1].speaker)
          /\ guest_turns'[Len(guest_turns')].preceding_question
                 = merged_turns[ext_i - 1].text]_vars

\* the body of the last host turn before merged turn i that holds no sponsor
\* phrase, "" when there is none
RecentCleanHostText(i) ==
    LET H == {j \in 1..(i - 1) : /\ HostName(merged_turns[j].speaker)
                                 /\ ~is_sponsor_content(merged_turns[j].text)}
    IN  IF H = {} THEN "" ELSE merged_turns[CHOOSE j \in H : \A k \in H : k <= j].text

\* C2 (amended): whenever the extraction loop emits a Turn, its
\* preceding_question is the body of the most recent earlier host turn of the
\* merged sequence that holds no sponsor phrase, and "" when there is none.
C2_RecentCleanHost ==
    [][Len(guest_turns') > Len(guest_turns) =>
          guest_turns'[Len(guest_turns')].preceding_question
              = RecentCleanHostText(ext_i)]_vars

\* two guests in a row were returned with the same, non-empty host question
C2_Witness ==
    /\ pc = "done"
    /\ Len(guest_turns) >= 2
    /\ guest_turns[1].preceding_question # ""
    /\ guest_turns[2].preceding_question = guest_turns[1].preceding_question
    /\ guest_turns[2].speaker # guest_turns[1].speaker

\* C10: every call of parse_transcript on the same text returns what the
\* first call returned.
C10_SameOutput ==
    \A c \in 1..Len(calls) : calls[c] = calls[1]

\* the second call has returned a Turn that carries a host question
C10_Witness ==
    /\ Len(calls) >= 2
    /\ calls[2] # <<>>
    /\ calls[2][1].preceding_question # ""

\* no line of the text is a speaker marker of either dialect
NoSpeakerLine ==
    \A p \in 0..Len(text) :
        (p = 0 \/ CharAt(text, p) = "\n") =>
            /\ MatchSpeakerTs(text, p).end = -1
            /\ MatchSpeakerNoTs(text, p).end = -1

\* C14: on a text without a speaker-marker line in either dialect,
\* parse_transcript goes from its start straight to its return, and every call
\* returns the empty list.
C14_NoMarkersEmpty ==
    NoSpeakerLine =>
        /\ pc \in {"scan", "done"}
        /\ pc = "done" => Len(calls) >= 1
        /\ \A c \in 1..Len(calls) : calls[c] = <<>>

\* a call has returned on a text whose only marker is a timestamp-only line
C14_Witness ==
    /\ NoSpeakerLine
    /\ \E p \in LineStarts(text) : MatchTsOnly(text, p).end # -1
    /\ pc = "done"
    /\ Len(calls) >= 1

\* the line starts of the text at which a timestamped speaker line stands
SpeakerLines == {p \in LineStarts(text) : MatchSpeakerTs(text, p).end # -1}

\* the text has one marker, a timestamped speaker line with an all-uppercase,
\* valid, non-host name, and its body has 100 characters or more and no
\* sponsor phrase
OneUpperGuest ==
    /\ Cardinality(SpeakerLines) = 1
    /\ \A p \in LineStarts(text) : MatchTsOnly(text, p).end = -1
    /\ LET m == MatchSpeakerTs(text, CHOOSE p \in SpeakerLines : TRUE)
           body == Strip(Slice(text, m.end, Len(text)))
       IN  /\ IsUpperStr(m.name)
           /\ is_valid_speaker_name(m.name)
           /\ ~HostName(m.name)
           /\ Len(body) >= 100
           /\ \A k \in 1..Len(SPONSOR_KEYWORDS) : ~Contains(Lower(body), SPONSOR_KEYWORDS[k])

\* the call returned one Turn, with the title-cased name and the timestamp of
\* the marker
OneTitledTurn ==
    LET m == MatchSpeakerTs(text, CHOOSE p \in SpeakerLines : TRUE)
    IN  \A c \in 1..Len(calls) :
            /\ Len(calls[c]) = 1
            /\ calls[c][1].speaker = Title(Strip(m.name))
            /\ calls[c][1].timestamp = m.ts

\* C15 as stated: such a transcript yields exactly one Turn, with the
\* title-cased name and the marker's timestamp.
C15_UpperNameOneTurn ==
    (OneUpperGuest /\ pc = "done") => OneTitledTurn

\* C15 (amended): such a transcript yields exactly one Turn, with the
\* title-cased name and the marker's timestamp, when the name is not one of the
\* sponsor speaker names; when it is one, no Turn is returned.
C15_UpperNameNotSponsor ==
    (OneUpperGuest /\ pc = "done") =>
        LET m == MatchSpeakerTs(text, CHOOSE p \in SpeakerLines : TRUE)
        IN  IF Lower(Strip(m.name)) \in SPONSOR_SPEAKERS
            THEN \A c \in 1..Len(calls) : calls[c] = <<>>
            ELSE OneTitledTurn

\* the call returned the Turn of a hyphenated upper-case name, title-cased
C15_Witness ==
    /\ OneUpperGuest
    /\ pc = "done"
    /\ Len(calls) >= 1
    /\ Len(calls[1]) = 1
    /\ calls[1][1].speaker = "Ada Wong-Lee"

\* C20: a merged turn whose body holds a sponsor phrase contributes nothing.
\* The step of the extraction loop over such a turn, guest or host, leaves
\* both the collected Turns and the held host question as they were; the held
\* question never holds a sponsor phrase; and a Turn that is emitted carries
\* the held question as its preceding_question.
C20_SponsorContributesNothing ==
    [][(pc = "extract" /\ ext_i' = ext_i + 1) =>
          /\ is_sponsor_content(merged_turns[ext_i].text) =>
                 /\ guest_turns' = guest_turns
                 /\ last_host_question' = last_host_question
          /\ ~is_sponsor_content(last_host_question')
          /\ Len(guest_turns') > Len(guest_turns) =>
                 guest_turns'[Len(guest_turns')].preceding_question
                     = last_host_question']_vars

\* a host question, then a host sponsor read, then a guest whose returned Turn
\* carries the question
C20_Witness ==
    /\ pc = "done"
    /\ \E i, j, k \in 1..Len(merged_turns) :
          /\ i < j
          /\ j < k
          /\ HostName(merged_turns[i].speaker)
          /\ ~is_sponsor_content(merged_turns[i].text)
          /\ HostName(merged_turns[j].speaker)
          /\ is_sponsor_content(merged_turns[j].text)
          /\ \E g \in 1..Len(guest_turns) :
                /\ guest_turns[g].text = merged_turns[k].text
                /\ guest_turns[g].preceding_question = merged_turns[i].text

\* the raw turns at which the speaker changes, the first included
RunStarts ==
    {i \in 1..Len(raw_turns) : i = 1 \/ raw_turns[i].speaker # raw_turns[i - 1].speaker}

\* the first and the last raw turn of the k-th run of one speaker
RunStart(k) == CHOOSE i \in RunStarts : Cardinality({j \in RunStarts : j <= i}) = k

RunEnd(k) ==
    IF k = Cardinality(RunStarts) THEN Len(raw_turns) ELSE RunStart(k + 1) - 1

\* the bodies of the raw turns a..b joined in order by a blank line
RECURSIVE JoinBlank(_, _)
JoinBlank(a, b) ==
    IF a = b THEN raw_turns[a].text
    ELSE JoinBlank(a, b - 1) \o "\n\n" \o raw_turns[b].text

\* C21: once the merge has run, there is one merged turn per run of
\* consecutive raw turns of one speaker; it has that speaker, the timestamp of
\* the first raw turn of the run, and the bodies of the run joined in order by
\* a blank line; no two adjacent merged turns have the same speaker.
C21_MergedRuns ==
    (pc = "extract" /\ ext_i = 1) =>
        /\ Len(merged_turns) = Cardinality(RunStarts)
        /\ \A k \in 1..Len(merged_turns) :
              /\ merged_turns[k].speaker = raw_turns[RunStart(k)].speaker
              /\ merged_turns[k].timestamp = raw_turns[RunStart(k)].timestamp
              /\ merged_turns[k].text = JoinBlank(RunStart(k), RunEnd(k))
        /\ \A k \in 1..(Len(merged_turns) - 1) :
              merged_turns[k].speaker # merged_turns[k + 1].speaker

\* two raw turns of one speaker with different timestamps were merged, and a
\* turn of another speaker follows
C21_Witness ==
    /\ pc = "extract"
    /\ ext_i = 1
    /\ \E k \in 1..(Len(merged_turns) - 1) :
          /\ RunEnd(k) > RunStart(k)
          /\ raw_turns[RunEnd(k)].timestamp # raw_turns[RunStart(k)].timestamp
          /\ raw_turns[RunEnd(k)].text # ""

\* the speaker markers before marker i
SpeakerMarkersBefore(i) == {j \in 1..(i - 1) : all_markers[j].type = "speaker"}

\* the last element of a non-empty set of indices
Last(S) == CHOOSE j \in S : \A k \in S : k <= j

\* C22: once the pass over the sorted markers has run, the raw turn of a
\* continuation marker has the speaker of the most recent speaker marker before
\* it, and the host identity "Lenny" (a host turn) when no speaker marker
\* precedes it; the raw turn of a speaker marker has that marker's speaker; and
\* the current speaker at the end is that of the last speaker marker, None
\* when there is none, whatever continuation markers came after it.
C22_ContinuationInherits ==
    pc = "merge" =>
        /\ Len(raw_turns) = Len(all_markers)
        /\ \A i \in 1..Len(all_markers) :
              IF all_markers[i].type = "speaker"
              THEN raw_turns[i].speaker = all_markers[i].speaker
              ELSE IF SpeakerMarkersBefore(i) = {}
                   THEN raw_turns[i].speaker = "Lenny" /\ raw_turns[i].is_host
                   ELSE raw_turns[i].speaker
                            = all_markers[Last(SpeakerMarkersBefore(i))].speaker
        /\ current_speaker
               = IF SpeakerMarkersBefore(Len(all_markers) + 1) = {} THEN NoneVal
                 ELSE all_markers[Last(SpeakerMarkersBefore(Len(all_markers) + 1))].speaker

\* a continuation before any speaker marker, then a guest's speaker marker,
\* then a continuation whose body went to that guest
C22_Witness ==
    /\ pc = "merge"
    /\ \E i, j, k \in 1..Len(all_markers) :
          /\ i < j
          /\ j < k
          /\ all_markers[i].type = "continuation"
          /\ SpeakerMarkersBefore(i) = {}
          /\ all_markers[j].type = "speaker"
          /\ all_markers[k].type = "continuation"
          /\ raw_turns[k].speaker = all_markers[j].speaker
          /\ ~raw_turns[k].is_host
          /\ raw_turns[i].is_host

\* no line of the text is a timestamped speaker line: parse_transcript falls
\* back to the untimestamped dialect
NoTimestampedSpeakerLine ==
    \A p \in 0..Len(text) :
        (p = 0 \/ CharAt(text, p) = "\n") => MatchSpeakerTs(text, p).end = -1

\* C23 as stated: in the untimestamped dialect the marker stream holds no
\* continuation marker.
C23_NoContinuation ==
    (pc = "fill" /\ NoTimestampedSpeakerLine) =>
        \A i \in 1..Len(all_markers) : all_markers[i].type # "continuation"

\* C23 (amended): in the untimestamped dialect no marker sits on a
\* timestamp-only line; every marker sits on an untimestamped speaker line and
\* has an empty timestamp, and it is a continuation marker exactly when the
\* name on that line fails is_valid_speaker_name.
C23_OnlyRejectedNames ==
    (pc = "fill" /\ NoTimestampedSpeakerLine) =>
        \A i \in 1..Len(all_markers) :
            LET m == MatchSpeakerNoTs(text, all_markers[i].start)
            IN  /\ MatchTsOnly(text, all_markers[i].start).end = -1
                /\ m.end # -1
                /\ all_markers[i].timestamp = ""
                /\ (all_markers[i].type = "continuation")
                       <=> ~is_valid_speaker_name(m.name)

\* an untimestamped transcript with a speaker marker, a rejected name turned
\* continuation marker, and a timestamp-only line that left no marker
C23_Witness ==
    /\ pc = "fill"
    /\ NoTimestampedSpeakerLine
    /\ \E i \in 1..Len(all_markers) : all_markers[i].type = "speaker"
    /\ \E i \in 1..Len(all_markers) : all_markers[i].type = "continuation"
    /\ \E p \in 1..Len(text) :
          /\ CharAt(text, p) = "\n"
          /\ MatchTsOnly(text, p).end # -1

\* the match of the speaker pattern of the dialect in use at marker i
SpeakerLineAt(i) ==
    IF NoTimestampedSpeakerLine THEN MatchSpeakerNoTs(text, all_markers[i].start)
    ELSE MatchSpeakerTs(text, all_markers[i].start)

\* marker i sits on a line of speaker-marker shape whose name is rejected
RejectedAt(i) ==
    /\ SpeakerLineAt(i).end # -1
    /\ ~is_valid_speaker_name(SpeakerLineAt(i).name)

\* C24: a line of speaker-marker shape whose name fails is_valid_speaker_name
\* gives a continuation marker with the line's timestamp; its raw turn has that
\* timestamp and the speaker current before the line (the last speaker
\* marker's, "Lenny" when there is none), never the rejected name, and the
\* current speaker after the pass is not the rejected name either.
C24_RejectedNameContinues ==
    pc = "merge" =>
        \A i \in 1..Len(all_markers) :
            RejectedAt(i) =>
                LET m == SpeakerLineAt(i)
                    names == {m.name, Strip(m.name), normalize_speaker_name(m.name)}
                IN  /\ all_markers[i].type = "continuation"
                    /\ all_markers[i].timestamp = m.ts
                    /\ raw_turns[i].timestamp = m.ts
                    /\ raw_turns[i].speaker
                           = IF SpeakerMarkersBefore(i) = {} THEN "Lenny"
                             ELSE all_markers[Last(SpeakerMarkersBefore(i))].speaker
                    /\ raw_turns[i].speaker \notin names
                    /\ current_speaker \notin names

\* a timestamped line with a rejected name after a guest's marker: its body
\* went to the guest under the line's own timestamp
C24_Witness ==
    /\ pc = "merge"
    /\ \E i \in 2..Len(all_markers) :
          /\ RejectedAt(i)
          /\ raw_turns[i].timestamp # ""
          /\ raw_turns[i].timestamp # raw_turns[i - 1].timestamp
          /\ all_markers[i - 1].type = "speaker"
          /\ raw_turns[i].speaker = all_markers[i - 1].speaker
          /\ ~raw_turns[i].is_host
          /\ raw_turns[i].text # ""

\* the guest merged turns that no sponsor filter removes
CleanGuestTurns ==
    {i \in 1..Len(merged_turns) :
        /\ ~HostName(merged_turns[i].speaker)
        /\ Lower(merged_turns[i].speaker) \notin SPONSOR_SPEAKERS
        /\ ~is_sponsor_content(merged_turns[i].text)}

LongGuestTurns == {i \in CleanGuestTurns : Len(merged_turns[i].text) >= 100}

\* the k-th element of a set of indices
Nth(S, k) == CHOOSE i \in S : Cardinality({j \in S : j <= i}) = k

\* C25: when parse_transcript returns, the returned Turns are, in order, the
\* guest merged turns that no sponsor filter removes and whose merged body has
\* 100 characters or more: such a turn is returned exactly when its body has 100
\* characters or more, and every returned Turn has a body of at least 100
\* characters.
C25_FloorExactly ==
    (pc = "done" /\ merged_turns # <<>>) =>
        /\ Len(guest_turns) = Cardinality(LongGuestTurns)
        /\ \A k \in 1..Len(guest_turns) :
              /\ guest_turns[k].text = merged_turns[Nth(LongGuestTurns, k)].text
              /\ guest_turns[k].speaker = merged_turns[Nth(LongGuestTurns, k)].speaker
              /\ guest_turns[k].timestamp = merged_turns[Nth(LongGuestTurns, k)].timestamp
              /\ Len(guest_turns[k].text) >= 100
        /\ calls[Len(calls)] = guest_turns

\* two replies of 49 characters, each under the floor, were merged into a body
\* of exactly 100 characters and returned
C25_Witness ==
    /\ pc = "done"
    /\ \E k \in 1..Len(guest_turns) : Len(guest_turns[k].text) = 100
    /\ \A i \in 1..Len(raw_turns) : Len(raw_turns[i].text) < 100

\* ------------------------------------------------------------------------
\* Claims about chunk_turn (SpecChunk)
\* ------------------------------------------------------------------------

DropFirst(str, n) == SubSeq(str, n + 1, Len(str))

RECURSIVE Reassemble(_, _, _)
Reassemble(cs, i, ov) ==
    IF i > Len(cs) THEN ""
    ELSE (IF i = 1 THEN cs[i].text ELSE DropFirst(cs[i].text, ov))
             \o Reassemble(cs, i + 1, ov)

\* C3: the chunks in index order, with the overlap length removed from the
\* start of every chunk after the first, concatenate to the Turn's body.
C3_Reconstructs ==
    cpc = "done" => Reassemble(chunks, 1, overlap) = turn.text

\* C4: a chunk is at most max_chars long, unless it is one paragraph of the
\* body that is longer than max_chars.
C4_ChunkBound ==
    cpc = "done" =>
        \A i \in 1..Len(chunks) :
            \/ Len(chunks[i].text) <= max_chars
            \/ chunks[i].text \in Range(SplitParagraphs(turn.text))

\* C5: chunk_turn returns at least one chunk and the chunk_index values are
\* 0, 1, ..., n-1 in list order.
C5_OneOrMoreIndexed ==
    cpc = "done" =>
        /\ Len(chunks) >= 1
        /\ \A i \in 1..Len(chunks) : chunks[i].chunk_index = i - 1

\* C26: when chunk_turn has split a body longer than max_chars and returned,
\* the final buffer (carried-over overlap included) is the last chunk, under
\* the next chunk index, exactly when it has 100 characters or more; a final
\* buffer of fewer characters adds no chunk to those sealed in the loop.
C26_FinalBufferFloor ==
    (cpc = "done" /\ paragraphs # <<>>) =>
        IF Len(current_chunk) >= 100
        THEN /\ Len(chunks) = chunk_index + 1
             /\ chunks[Len(chunks)].text = current_chunk
             /\ chunks[Len(chunks)].chunk_index = chunk_index
        ELSE /\ Len(chunks) = chunk_index
             /\ \A k \in 1..Len(chunks) : chunks[k].chunk_index = k - 1

\* a split body whose final buffer of 1 to 99 characters was dropped after a
\* chunk had been sealed
C26_Witness ==
    /\ cpc = "done"
    /\ paragraphs # <<>>
    /\ Len(current_chunk) > 0
    /\ Len(current_chunk) < 100
    /\ Len(chunks) >= 1
    /\ chunks[Len(chunks)].text # current_chunk

\* ------------------------------------------------------------------------
\* Claims about rank_speakers (SpecRank)
\* ------------------------------------------------------------------------

HitIdx == 1..Len(child_results)

\* the parents of a speaker that the hits resolve to
EvidenceParents(speaker) ==
    {p \in DOMAIN ParentStore :
        /\ ParentStore[p].metadata.speaker = speaker
        /\ \E i \in HitIdx : child_results[i].parent_id = p}

HitSims(p) == {SimUnit - child_results[i].distance :
                  i \in {j \in HitIdx : child_results[j].parent_id = p}}

BestSim(p) == CHOOSE m \in HitSims(p) : \A y \in HitSims(p) : y <= m

RECURSIVE SumBest(_)
SumBest(P) ==
    IF P = {} THEN 0
    ELSE LET p == CHOOSE q \in P : TRUE IN BestSim(p) + SumBest(P \ {p})

Outputs == {ranked[r] : r \in 1..Len(ranked)}

Position(out, speaker) ==
    IF \E i \in 1..Len(out) : out[i].speaker = speaker
    THEN CHOOSE i \in 1..Len(out) : out[i].speaker = speaker
    ELSE 0

\* C6: rank_speakers returns at most top_k SpeakerContexts, in non-increasing
\* order of score.
C6_TopKSorted ==
    \A out \in Outputs :
        /\ Len(out) <= top_k
        /\ \A i, j \in 1..Len(out) : i < j => ~ScoreLess(out[i].score, out[j].score)

\* a backfilled speaker was returned ahead of a speaker of the primary pass
C6_Witness ==
    \E out \in Outputs :
        /\ Len(out) = 2
        /\ Len(out[1].chunks) < min_chunks
        /\ Len(out[2].chunks) >= min_chunks
        /\ ScoreLess(out[2].score, out[1].score)

\* C7: the score of a returned speaker is the sum, over the parents its hits
\* resolve to, of the best child similarity of each parent, over the square
\* root of the number of those parents; every evidence chunk carries that best
\* similarity and the number of child hits on it.
C7_ScoreFormula ==
    \A out \in Outputs : \A i \in 1..Len(out) :
        LET P == EvidenceParents(out[i].speaker)
        IN  /\ out[i].score.n = Cardinality(P)
            /\ out[i].score.total = SumBest(P)
            /\ {out[i].chunks[k].id : k \in 1..Len(out[i].chunks)} = P
            /\ Len(out[i].chunks) = Cardinality(P)
            /\ \A k \in 1..Len(out[i].chunks) :
                  /\ out[i].chunks[k].similarity = BestSim(out[i].chunks[k].id)
                  /\ out[i].chunks[k].num_child_matches
                         = Cardinality({j \in HitIdx :
                               child_results[j].parent_id = out[i].chunks[k].id})

\* a returned speaker has two parents, one of them hit by two children
C7_Witness ==
    \E out \in Outputs : \E i \in 1..Len(out) :
        /\ out[i].score.n = 2
        /\ \E k \in 1..Len(out[i].chunks) : out[i].chunks[k].num_child_matches = 2

Speakers == {ParentStore[p].metadata.speaker : p \in DOMAIN ParentStore}

\* x has as many evidence parents as y and they can be paired so that each
\* parent of x has a strictly higher best similarity than its partner
Dominates(x, y) ==
    LET Px == EvidenceParents(x)
        Py == EvidenceParents(y)
    IN  /\ x # y
        /\ Px # {}
        /\ Cardinality(Px) = Cardinality(Py)
        /\ \E f \in [Px -> Py] :
              /\ \A a, b \in Px : a # b => f[a] # f[b]
              /\ \A a \in Px : BestSim(a) > BestSim(f[a])

\* C8: of two speakers with the same number of evidence parents, the one with
\* the strictly higher per-parent similarities is returned whenever the other
\* is, and ahead of it.
C8_Monotone ==
    \A out \in Outputs : \A x, y \in Speakers :
        (Dominates(x, y) /\ Position(out, y) # 0) =>
            (Position(out, x) # 0 /\ Position(out, x) < Position(out, y))

\* both speakers of such a pair were returned
C8_Witness ==
    \E out \in Outputs : \E x, y \in Speakers :
        /\ Dominates(x, y)
        /\ Position(out, y) # 0
        /\ Position(out, x) # 0

\* C9: every call of rank_speakers on the same hits and the same parent
\* collection returns what the first call returned, whatever the order in
\* which the collection answered.
C9_SameRanking ==
    \A r \in 1..Len(ranked) : ranked[r] = ranked[1]

\* the second call has returned two speakers with equal scores
C9_Witness ==
    /\ Len(ranked) >= 2
    /\ Len(ranked[2]) = 2
    /\ ~ScoreLess(ranked[2][1].score, ranked[2][2].score)
    /\ ~ScoreLess(ranked[2][2].score, ranked[2][1].score)

IsResolved(hit) == hit.parent_id \in DOMAIN ParentStore

\* the child hits whose parent the parent collection holds, in hit order
ResolvedHits == SelectSeq(child_results, IsResolved)

\* the ranking of the resolved hits alone
RankingOfResolved ==
    IF ResolvedHits = <<>> THEN <<>>
    ELSE LET ids == {ResolvedHits[i].parent_id : i \in 1..Len(ResolvedHits)}
         IN  RankHits(ResolvedHits, CHOOSE o \in Orders(ids) : TRUE, top_k, min_chunks)

\* C11: a child hit whose parent the parent collection does not hold is dropped:
\* every call returns (it raises nothing), no returned speaker, evidence chunk
\* or match count comes from such a hit, and the result is the ranking of the
\* other hits alone.
C11_UnresolvedDropped ==
    \A out \in Outputs :
        /\ out = RankingOfResolved
        /\ \A i \in 1..Len(out) : \A k \in 1..Len(out[i].chunks) :
              /\ out[i].chunks[k].id \in DOMAIN ParentStore
              /\ out[i].chunks[k].num_child_matches
                     = Cardinality({j \in 1..Len(ResolvedHits) :
                           ResolvedHits[j].parent_id = out[i].chunks[k].id})

\* the nearest hit has no parent in the collection and a speaker was returned
C11_Witness ==
    /\ Len(child_results) >= 2
    /\ ~IsResolved(child_results[1])
    /\ Len(ranked) >= 1
    /\ ranked[1] # <<>>

\* C12: when the child search returned no hit, every call of rank_speakers
\* returns the empty list and the parent collection is never queried.
C12_NoHitsNoQuery ==
    child_results = <<>> =>
        /\ parent_gets = 0
        /\ \A out \in Outputs : out = <<>>

\* rank_speakers has returned from a search without hits
C12_Witness ==
    /\ child_results = <<>>
    /\ Len(ranked) >= 1

\* C16: in every SpeakerContext that rank_speakers returns, the evidence
\* chunks are in non-increasing order of similarity.
C16_EvidenceSorted ==
    \A out \in Outputs : \A i \in 1..Len(out) :
        \A k, l \in 1..Len(out[i].chunks) :
            k < l => out[i].chunks[k].similarity >= out[i].chunks[l].similarity

\* a backfilled speaker was returned with two evidence chunks of different
\* similarity
C16_Witness ==
    \E out \in Outputs : \E i \in 1..Len(out) :
        /\ Len(out[i].chunks) = 2
        /\ Len(out[i].chunks) < min_chunks
        /\ out[i].chunks[1].similarity > out[i].chunks[2].similarity

\* the score the code gives a speaker with evidence: the sum of the best
\* similarities of its parents over the square root of their number
SpeakerScore(speaker) ==
    [total |-> SumBest(EvidenceParents(speaker)),
     n |-> Cardinality(EvidenceParents(speaker))]

\* C18: when fewer than top_k speakers have min_chunks parents, the backfill
\* adds the highest-scoring remaining speakers: no speaker with evidence that
\* is left out of the result has a strictly higher score than a backfilled
\* speaker in the result.
C18_BackfillBest ==
    \A out \in Outputs : \A i \in 1..Len(out) : \A x \in Speakers :
        (/\ Len(out[i].chunks) < min_chunks
         /\ EvidenceParents(x) # {}
         /\ Position(out, x) = 0)
            => ~ScoreLess(out[i].score, SpeakerScore(x))

\* the speakers whose hits resolve to at least min_chunks parents
Qualified == {x \in Speakers : Cardinality(EvidenceParents(x)) >= min_chunks}

\* C19: a speaker with fewer than min_chunks evidence parents is returned only
\* when fewer than top_k speakers have min_chunks parents or more; when top_k
\* or more speakers qualify, every returned speaker has at least min_chunks
\* evidence chunks.
C19_BelowMinOnlyBackfill ==
    \A out \in Outputs :
        /\ (\E i \in 1..Len(out) :
                Cardinality(EvidenceParents(out[i].speaker)) < min_chunks)
               => Cardinality(Qualified) < top_k
        /\ Cardinality(Qualified) >= top_k
               => \A i \in 1..Len(out) : Len(out[i].chunks) >= min_chunks

\* top_k speakers qualified and were returned while another speaker, with a
\* strictly higher score but fewer than min_chunks parents, was kept out
C19_Witness ==
    \E out \in Outputs : \E x \in Speakers :
        /\ Cardinality(Qualified) >= top_k
        /\ Len(out) = top_k
        /\ top_k >= 1
        /\ EvidenceParents(x) # {}
        /\ Cardinality(EvidenceParents(x)) < min_chunks
        /\ Position(out, x) = 0
        /\ ScoreLess(out[Len(out)].score, SpeakerScore(x))

\* speaker_parents as the call builds it from the hits; the grouping loop runs
\* over parent_scores, so any order of the collection's answer gives the same
SpeakerParents ==
    LET parent_scores == CollectParents(child_results)
        parent_ids == [i \in 1..Len(parent_scores) |-> parent_scores[i].id]
        order == CHOOSE o \in Orders(FoundIds(parent_ids)) : TRUE
    IN  GroupBySpeaker(parent_scores, get_parent_chunks(parent_ids, order))

\* every SpeakerContext the call scores, before the cut to top_k
ScoredContexts ==
    Backfill(ScoreSpeakers(SpeakerParents, min_chunks), SpeakerParents, top_k)

\* C27: no speaker reaches the scoring formula with zero evidence parents.
\* Every entry of speaker_parents has a parent; every SpeakerContext scored in
\* the primary pass or in the backfill, and every one returned, divides by the
\* square root of a number of parents that is at least 1, for min_chunks = 0
\* as for the other values.
C27_NoZeroParents ==
    ranked # <<>> =>
        /\ \A i \in 1..Len(SpeakerParents) : Len(SpeakerParents[i].chunks) >= 1
        /\ \A i \in 1..Len(ScoredContexts) :
              /\ ScoredContexts[i].score.n >= 1
              /\ ScoredContexts[i].score.n = Len(ScoredContexts[i].chunks)
        /\ \A out \in Outputs : \A i \in 1..Len(out) :
              /\ out[i].score.n >= 1
              /\ out[i].score.n = Cardinality(EvidenceParents(out[i].speaker))

\* a call with min_chunks = 0 whose hits include a parent that is not in the
\* collection has returned a speaker
C27_Witness ==
    /\ min_chunks = 0
    /\ top_k >= 1
    /\ \E i \in HitIdx : child_results[i].parent_id \notin DOMAIN ParentStore
    /\ \E out \in Outputs : out # <<>>

\* the speakers with at least one resolved parent among the hits
EvidenceSpeakers == {x \in Speakers : EvidenceParents(x) # {}}

\* C28: rank_speakers returns exactly min(top_k, S) SpeakerContexts, S being
\* the number of distinct speakers with a resolved parent among the hits, each
\* of them one of those speakers, and no speaker twice.
C28_ExactCount ==
    \A out \in Outputs :
        /\ Len(out) = Min(top_k, Cardinality(EvidenceSpeakers))
        /\ \A i \in 1..Len(out) : out[i].speaker \in EvidenceSpeakers
        /\ \A i, j \in 1..Len(out) : i # j => out[i].speaker # out[j].speaker

\* the pool ran out before top_k: the one speaker with evidence, short of
\* min_chunks, was backfilled and returned alone
C28_Witness ==
    /\ top_k = 2
    /\ Cardinality(EvidenceSpeakers) = 1
    /\ \E out \in Outputs :
          /\ Len(out) = 1
          /\ Len(out[1].chunks) < min_chunks

\* the first child hit that resolves to a parent of the speaker
FirstSeen(speaker) ==
    CHOOSE i \in HitIdx :
        /\ child_results[i].parent_id \in EvidenceParents(speaker)
        /\ \A j \in HitIdx :
              child_results[j].parent_id \in EvidenceParents(speaker) => i <= j

\* C29: of two returned speakers with equal scores, the one first encountered
\* in the child search results comes first, also when one of them was added
\* by the backfill pass.
C29_FirstSeenTies ==
    \A out \in Outputs : \A i, j \in 1..Len(out) :
        (/\ i < j
         /\ ~ScoreLess(out[i].score, out[j].score)
         /\ ~ScoreLess(out[j].score, out[i].score))
            => FirstSeen(out[i].speaker) < FirstSeen(out[j].speaker)

\* ------------------------------------------------------------------------
\* Claims about the corpus loops (SpecCorpus)
\* ------------------------------------------------------------------------

IsDecodable(file) == file.decodable

IsUndecodable(file) == ~file.decodable

NamesOf(fs) == [i \in 1..Len(fs) |-> fs[i].name]

\* the corpus without the files that cannot be decoded
ReadableFiles == SelectSeq(files, IsDecodable)

RECURSIVE VerifyFiles(_, _, _)
VerifyFiles(st, fs, i) ==
    IF i > Len(fs) THEN st ELSE VerifyFiles(VerifyFile(st, fs[i]), fs, i + 1)

\* C13: when the loops are through, every file that could not be decoded has
\* been reported and every other file has been processed: the parent documents
\* and the parent ids of create_parent_documents, and the totals of verify_all,
\* are those of the corpus without the failing files.
C13_FailingFileSkipped ==
    /\ ingest_pc = "done" =>
          LET ref == IngestFiles(IngestStart, ReadableFiles, 1)
          IN  /\ ingest_printed = NamesOf(SelectSeq(files, IsUndecodable))
              /\ parent_documents = ref.docs
              /\ parent_store = ref.store
    /\ verify_pc \in {"passed", "failed"} =>
          LET ref == VerifyFiles(VerifyStart, ReadableFiles, 1)
          IN  /\ [i \in 1..Len(verify_printed) |-> verify_printed[i].file] = NamesOf(files)
              /\ \A i \in 1..Len(verify_printed) :
                    (verify_printed[i].status = "ERROR") <=> ~files[i].decodable
              /\ total_turns = ref.total_turns
              /\ total_chars = ref.total_chars
              /\ all_speakers = ref.all_speakers

\* both loops are through a corpus in which a failing file comes before a file
\* that yields parent documents
C13_Witness ==
    /\ ingest_pc = "done"
    /\ verify_pc = "failed"
    /\ \E i, j \in 1..Len(files) :
          /\ i < j
          /\ ~files[i].decodable
          /\ \E k \in 1..Len(parent_documents) :
                parent_documents[k].metadata.source_file = files[j].name

\* ------------------------------------------------------------------------
\* Claims about verify_transcript (SpecVerify)
\* ------------------------------------------------------------------------

\* the characters of the non-host turns of a list (only of those under the
\* 100-character floor when short_only)
RECURSIVE GuestTextLen(_, _)
GuestTextLen(turns, short_only) ==
    IF turns = <<>> THEN 0
    ELSE (IF ~turns[1].is_host /\ (~short_only \/ Len(turns[1].text) < 100)
          THEN Len(turns[1].text) ELSE 0) + GuestTextLen(Tail(turns), short_only)

ShortGuestTurns ==
    {i \in 1..Len(merged_turns) :
        /\ ~merged_turns[i].is_host
        /\ Len(merged_turns[i].text) > 0
        /\ Len(merged_turns[i].text) < 100}

\* every marker of the transcript is followed by some text
NoEmptyBody == \A i \in 1..Len(raw_turns) : raw_turns[i].text # ""

\* C17: guest_chars counts the text after every non-host marker, whatever its
\* length and whether or not it is sponsor content: it is at least the
\* characters of all non-host raw turns.  A guest turn under 100 characters is
\* not among the returned turns, yet its characters are in guest_chars, so
\* (in a transcript whose markers all have a body) parsed_guest_chars falls
\* short of guest_chars by at least their number and the capture ratio is
\* below 1.
C17_ShortTurnsCounted ==
    vpc = "done" =>
        /\ verify_result.guest_chars >= GuestTextLen(raw_turns, FALSE)
        /\ \A i \in ShortGuestTurns :
               \A j \in 1..Len(guest_turns) :
                   guest_turns[j].text # merged_turns[i].text
        /\ verify_result.parsed_guest_chars = SumTextLen(guest_turns)
        /\ NoEmptyBody =>
               /\ verify_result.guest_chars
                      >= verify_result.parsed_guest_chars
                             + GuestTextLen(merged_turns, TRUE)
               /\ ShortGuestTurns # {} =>
                      verify_result.parsed_guest_chars < verify_result.guest_chars

\* C30: for every transcript, parsed_guest_chars never exceeds guest_chars, so
\* the capture ratio is at most 1.0, also when merged turns include empty
\* continuation bodies joined by blank-line separators.
C30_RatioAtMostOne ==
    vpc = "done" =>
        verify_result.parsed_guest_chars <= verify_result.guest_chars

\* a transcript with a returned guest turn and a short guest reply has been
\* verified
C17_Witness ==
    /\ vpc = "done"
    /\ NoEmptyBody
    /\ verify_result.parsed_turns >= 1
    /\ ShortGuestTurns # {}
    /\ verify_result.parsed_guest_chars < verify_result.guest_chars

====
